---- MODULE Spec2Model ----
(***************************************************************************)
(* Control plane of WebRetriever (a Vingester derivative): the instance    *)
(* registry, the lifecycle state machine controlBrowser, the persistence   *)
(* of the instance configurations and the three control surfaces (local    *)
(* control channel, REST API, Web dashboard API).                          *)
(*                                                                         *)
(* JavaScript values are pairs <<type, payload>> with a string payload, a  *)
(* configuration object is a function from its keys to such values.  The   *)
(* execution model is the one of Node.js: a handler runs without           *)
(* interruption up to its first pending await; the settling of a worker    *)
(* promise runs the continuations of all the calls awaiting it.            *)
(***************************************************************************)
EXTENDS Integers, Sequences, FiniteSets, Bags, TLC

(***************************************************************************)
(* Bounds of the model                                                     *)
(***************************************************************************)
MaxFrames  == 2
MaxWorkers == 2
MaxUuid    == 2
MaxVersion == 3
MaxBulk    == 1
MaxSamples == 7
MaxUploads == 3
MaxApply   == 2

(***************************************************************************)
(* JavaScript values                                                       *)
(***************************************************************************)
Str(s)    == <<"string", s>>
Bool(b)   == <<"boolean", IF b THEN "true" ELSE "false">>
Num(n)    == <<"number", n>>
Undefined == <<"undefined", "">>
defaultPort(a) == IF a = "api" THEN "7211" ELSE "7212"

Truthy(v)     == v \notin {Undefined, Bool(FALSE), Str(""), Num("0"), Num("NaN")}
Get(obj, key) == IF key \in DOMAIN obj THEN obj[key] ELSE Undefined

EmptyObj == [key \in {} |-> Undefined]

(*  { ...a, ...b }  *)
Spread(a, b) == [key \in DOMAIN a \cup DOMAIN b |-> IF key \in DOMAIN b THEN b[key] ELSE a[key]]

Null      == <<"null", "">>
TypeOf(v) == IF v = Null THEN "object" ELSE v[1]

(*  Number(), String(), Boolean() on the values of the model; a number's
    payload is the text JavaScript prints for it  *)
Numerals == {"0", "1", "2", "5", "30", "300", "720", "1280", "44100", "48000"}
NumberOf(v) ==
    CASE TypeOf(v) = "number"    -> v
      [] TypeOf(v) = "boolean"   -> Num(IF v = Bool(TRUE) THEN "1" ELSE "0")
      [] TypeOf(v) = "object"    -> Num("0")
      [] TypeOf(v) = "undefined" -> Num("NaN")
      [] OTHER -> Num(CASE v[2] = ""          -> "0"
                        [] v[2] \in Numerals  -> v[2]
                        [] v[2] = "1.0"       -> "1"
                        [] OTHER              -> "NaN")
StringOf(v) ==
    CASE TypeOf(v) = "string"    -> v
      [] TypeOf(v) = "object"    -> Str("null")
      [] TypeOf(v) = "undefined" -> Str("undefined")
      [] OTHER                   -> Str(v[2])
BooleanOf(v) == Bool(Truthy(v) /\ v # Null)

Coerce(type, value) ==
    CASE type = "boolean" /\ TypeOf(value) # "boolean" -> BooleanOf(value)
      [] type = "number"  /\ TypeOf(value) # "number"  -> NumberOf(value)
      [] type = "string"  /\ TypeOf(value) # "string"  -> StringOf(value)
      [] OTHER -> value

(***************************************************************************)
(* Config field schema                                                     *)
(***************************************************************************)
Field(iname, itype, def, etype, ename) ==
    [iname |-> iname, itype |-> itype, def |-> def, etype |-> etype, ename |-> ename]

fields == <<
    Field("t",  "string",  Str(""),            "string",  "BrowserTitle"),
    Field("i",  "string",  Str(""),            "string",  "BrowserInfo"),
    Field("w",  "string",  Str("1280"),        "number",  "BrowserWidth"),
    Field("h",  "string",  Str("720"),         "number",  "BrowserHeight"),
    Field("c",  "string",  Str("transparent"), "string",  "BrowserColor"),
    Field("z",  "string",  Str("1.0"),         "number",  "BrowserZoom"),
    Field("H",  "boolean", Bool(FALSE),        "boolean", "BrowserTrust"),
    Field("I",  "boolean", Bool(FALSE),        "boolean", "BrowserNodeAPI"),
    Field("B",  "boolean", Bool(FALSE),        "boolean", "BrowserOBSDOM"),
    Field("S",  "boolean", Bool(FALSE),        "boolean", "BrowserPersist"),
    Field("ar", "boolean", Bool(FALSE),        "boolean", "AutoRefreshEnabled"),
    Field("ai", "string",  Str("300"),         "number",  "AutoRefreshInterval"),
    Field("as", "boolean", Bool(FALSE),        "boolean", "InstanceAutoStart"),
    Field("it", "string",  Str("url"),         "string",  "InputType"),
    Field("u",  "string",  Str(""),            "string",  "InputURL"),
    Field("if", "string",  Str(""),            "string",  "InputFiles"),
    Field("si", "string",  Str("5"),           "number",  "SlideshowInterval"),
    Field("sf", "string",  Str("1"),           "number",  "SlideshowFade"),
    Field("k",  "string",  Str("0"),           "number",  "PatchDelay"),
    Field("j",  "string",  Str(""),            "string",  "PatchFrame"),
    Field("g",  "string",  Str("inline"),      "string",  "PatchStyleType"),
    Field("q",  "string",  Str(""),            "string",  "PatchStyleCode"),
    Field("G",  "string",  Str("inline"),      "string",  "PatchScriptType"),
    Field("Q",  "string",  Str(""),            "string",  "PatchScriptCode"),
    Field("N",  "boolean", Bool(FALSE),        "boolean", "Output2Enabled"),
    Field("f",  "string",  Str("30"),          "number",  "Output2VideoFrameRate"),
    Field("a",  "boolean", Bool(FALSE),        "boolean", "Output2VideoAdaptive"),
    Field("O",  "string",  Str("0"),           "number",  "Output2VideoDelay"),
    Field("r",  "number",  Num("48000"),       "number",  "Output2AudioSampleRate"),
    Field("C",  "string",  Str("2"),           "number",  "Output2AudioChannels"),
    Field("o",  "string",  Str("0"),           "number",  "Output2AudioDelay"),
    Field("n",  "boolean", Bool(TRUE),         "boolean", "Output2SinkNDIEnabled"),
    Field("v",  "boolean", Bool(TRUE),         "boolean", "Output2SinkNDIAlpha"),
    Field("l",  "boolean", Bool(FALSE),        "boolean", "Output2SinkNDITallyReload"),
    Field("m",  "boolean", Bool(FALSE),        "boolean", "Output2SinkFFmpegEnabled"),
    Field("R",  "string",  Str("vbr"),         "string",  "Output2SinkFFmpegMode"),
    Field("F",  "string",  Str("matroska"),    "string",  "Output2SinkFFmpegFormat"),
    Field("M",  "string",  Str(""),            "string",  "Output2SinkFFmpegOptions"),
    Field("P",  "boolean", Bool(FALSE),        "boolean", "PreviewEnabled"),
    Field("T",  "boolean", Bool(FALSE),        "boolean", "ConsoleEnabled"),
    Field("E",  "boolean", Bool(FALSE),        "boolean", "DevToolsEnabled"),
    Field("_",  "boolean", Bool(FALSE),        "boolean", "Collapsed") >>

SchemaKeys == {fields[n].iname : n \in DOMAIN fields}

FieldOf(iname) == fields[CHOOSE n \in DOMAIN fields : fields[n].iname = iname]

ExternalNames  == {fields[n].ename : n \in DOMAIN fields}
FieldNamed(ename) == fields[CHOOSE n \in DOMAIN fields : fields[n].ename = ename]

(***************************************************************************)
(* sanitizeConfig: the record as it is after the call and the number of    *)
(* changes the call returns.                                               *)
(***************************************************************************)
sanitizeConfig_alwaysCounts(browser) ==
    LET b1       == IF Get(browser, "it") = Str("video")
                    THEN [browser EXCEPT !["it"] = Str("url")] ELSE browser
        missing  == {key \in SchemaKeys : Get(b1, key) = Undefined}
        b2       == [key \in DOMAIN b1 \cup missing |->
                        IF key \in missing THEN FieldOf(key).def ELSE b1[key]]
        extra    == {attr \in DOMAIN b2 : attr # "id" /\ attr \notin SchemaKeys}
    IN  [cfg     |-> [key \in DOMAIN b2 \ extra |-> b2[key]],
         changed |-> 1 + Cardinality(missing) + Cardinality(extra)]

sanitizeConfig_keepsExtra(browser) ==
    LET migrate  == Get(browser, "it") = Str("video")
        b1       == IF migrate THEN [browser EXCEPT !["it"] = Str("url")] ELSE browser
        missing  == {key \in SchemaKeys : Get(b1, key) = Undefined}
    IN  [cfg     |-> [key \in DOMAIN b1 \cup missing |->
                        IF key \in missing THEN FieldOf(key).def ELSE b1[key]],
         changed |-> (IF migrate THEN 1 ELSE 0) + Cardinality(missing)]

sanitizeConfig_noMigrate(browser) ==
    LET missing  == {key \in SchemaKeys : Get(browser, key) = Undefined}
        b2       == [key \in DOMAIN browser \cup missing |->
                        IF key \in missing THEN FieldOf(key).def ELSE browser[key]]
        extra    == {attr \in DOMAIN b2 : attr # "id" /\ attr \notin SchemaKeys}
    IN  [cfg     |-> [key \in DOMAIN b2 \ extra |-> b2[key]],
         changed |-> Cardinality(missing) + Cardinality(extra)]

sanitizeConfig(browser) ==
    LET migrate  == Get(browser, "it") = Str("video")
        b1       == IF migrate THEN [browser EXCEPT !["it"] = Str("url")] ELSE browser
        missing  == {key \in SchemaKeys : Get(b1, key) = Undefined}
        b2       == [key \in DOMAIN b1 \cup missing |->
                        IF key \in missing THEN FieldOf(key).def ELSE b1[key]]
        extra    == {attr \in DOMAIN b2 : attr # "id" /\ attr \notin SchemaKeys}
        b3       == [key \in DOMAIN b2 \ extra |-> b2[key]]
    IN  [cfg     |-> b3,
         changed |-> (IF migrate THEN 1 ELSE 0) + Cardinality(missing) + Cardinality(extra)]

(***************************************************************************)
(* State                                                                   *)
(***************************************************************************)
VARIABLES
    browsers,       \* the registry: entries [id, cfg, h] in Object.keys order
    worker,         \* worker[h]: whether the capture worker of handle h runs
    nextH,          \* the handle the next "new Browser" gets
    frames,         \* the bag of the worker promises awaited, with what awaits them
    store,          \* the instance-config set under the store key "browsers"
    configVersion,  \* the configuration version counter
    uuid,           \* number of ids generated so far
    mounted,        \* whether the timer of control-mounted is still to fire
    probe,          \* the record a browser-sanitize request sent, and the answer
    file,           \* the YAML file exports write and imports read
    replaced,       \* the ids of the instances the last import replaced
    stored,         \* the store has the key "browsers"
    server,         \* api.server, webui.server: the listener is open
    closing,        \* the close handler of the control window: where it is, what it did
    cpuHighCount,   \* the consecutive averages at or above the threshold, as the timer counts them
    usage,          \* the averages so far: the last one, its run, the alerts sent
    mediaDir,       \* the media directory: the upload each file name holds
    uploads,        \* the upload requests: where each handler is
    adapter,        \* the REST API and the dashboard: recorded settings and http server
    autosave,       \* the debounced autosave: its timer and the document last written
    ev              \* what the last step did: calls, results, messages sent

vars == <<browsers, worker, nextH, frames, store, configVersion, uuid, mounted, probe,
          file, replaced, stored, server, closing, cpuHighCount, usage, mediaDir, uploads, adapter, autosave, ev>>

UuidOf(n) == CASE n = 1 -> "U1" [] n = 2 -> "U2" [] n = 3 -> "U3" [] OTHER -> "U4"

(*  the records the control surfaces send as configurations or bodies  *)
CfgCam    == ("t" :> Str("Cam1") @@ "N" :> Bool(TRUE) @@ "as" :> Bool(TRUE))
CfgNoName == ("t" :> Str("") @@ "N" :> Bool(TRUE))
CfgOff    == ("t" :> Str("Cam1") @@ "N" :> Bool(FALSE) @@ "zz" :> Str("x"))
Inputs    == {CfgCam, CfgNoName, CfgOff}

(***************************************************************************)
(* Registry helpers (a JavaScript object with insertion-ordered keys)      *)
(***************************************************************************)
Keys(bs)       == [n \in DOMAIN bs |-> bs[n].id]
Has(bs, id)    == \E n \in DOMAIN bs : bs[n].id = id
Entry(bs, id)  == bs[CHOOSE n \in DOMAIN bs : bs[n].id = id]
Remove(bs, id) == SelectSeq(bs, LAMBDA e : e.id # id)
Put(bs, e)     == IF Has(bs, e.id)
                  THEN [n \in DOMAIN bs |-> IF bs[n].id = e.id THEN e ELSE bs[n]]
                  ELSE Append(bs, e)

(***************************************************************************)
(* Frames: a worker promise some call awaits.                              *)
(*   k    the worker operation: "start" | "stop" | "clear", "xstop" for a  *)
(*        worker stop that no controlBrowser call awaits                   *)
(*   id,h the id the call was made with, the Browser object it holds       *)
(*   par  the call the controlBrowser call is nested in:                   *)
(*        "del" | "bulk" | "patch", "" for a call of its own               *)
(*   grp  the Promise.all group of a bulk call                             *)
(*   sf   the handler awaiting the outermost call, "" when nobody does     *)
(*   cfg  the config a PATCH request holds across its awaits               *)
(***************************************************************************)
Frame(k, id, h, par, grp, sf, cfg) ==
    [k |-> k, id |-> id, h |-> h, par |-> par, grp |-> grp, sf |-> sf, cfg |-> cfg]

Min(set)      == CHOOSE n \in set : \A m \in set : n <= m
Group(fs, g)  == {fr \in BagToSet(fs) : fr.grp = g}
NewGroup(fs)  == Min({g \in 1..(MaxFrames + 1) : Group(fs, g) = {}})

(*  the working state a handler threads through its statements  *)
Cur == [browsers |-> browsers, worker |-> worker, nextH |-> nextH,
        frames |-> frames, store |-> store, configVersion |-> configVersion,
        uuid |-> uuid, file |-> file, replaced |-> replaced, stored |-> stored,
        server |-> server, closing |-> closing, autosave |-> autosave,
        saves |-> 0, calls |-> <<>>, done |-> <<>>, sends |-> <<>>, wops |-> <<>>,
        res |-> "none", ans |-> "", http |-> 0, msg |-> "", ovf |-> FALSE]

PutFrame(S, fr) ==
    IF BagCardinality(S.frames) >= MaxFrames THEN [S EXCEPT !.ovf = TRUE]
    ELSE [S EXCEPT !.frames = @ (+) SetToBag({fr})]
Send(S, msg, id)  == [S EXCEPT !.sends = Append(@, <<msg, id>>)]
Invoke(S, op, h)  == [S EXCEPT !.wops = Append(@, <<op, h>>)]
Result(S, res)    == [S EXCEPT !.res = res]
Respond(S, code)  == [S EXCEPT !.http = code]
Reject(S, code, message) == [S EXCEPT !.http = code, !.msg = message]
Release(S, fr)    == [S EXCEPT !.frames = @ (-) SetToBag({fr})]
Done(S, action, id, outcome) ==
    [S EXCEPT !.done = Append(@, [action |-> action, id |-> id, res |-> outcome])]

(***************************************************************************)
(* The capture worker (Browser): its query contract                        *)
(***************************************************************************)
running(S, id) == S.worker[Entry(S.browsers, id).h]
valid(cfg)     == /\ Get(cfg, "t") \notin {Undefined, Str("")}
                  /\ Get(cfg, "N") = Bool(TRUE)
NewBrowser(S, id, cfg) ==
    IF S.nextH > MaxWorkers THEN [S EXCEPT !.ovf = TRUE] ELSE
    [S EXCEPT !.browsers = Put(@, [id |-> id, cfg |-> cfg, h |-> S.nextH]),
              !.worker   = [h \in 1..S.nextH |-> IF h = S.nextH THEN FALSE ELSE S.worker[h]],
              !.nextH    = @ + 1]
reconfigure(S, id, cfg) ==
    [S EXCEPT !.browsers = Put(@, [Entry(@, id) EXCEPT !.cfg = cfg])]

(***************************************************************************)
(* Log of the state-machine calls a step evaluates: what the registry and  *)
(* the worker said when the call began, what the call returned ("ok",      *)
(* "pending" when it suspended, else the message of the error thrown), the *)
(* worker operations it invoked and the notifications it sent itself.      *)
(***************************************************************************)
Log(S, action, id, res, wops, sends) ==
    LET exists == Has(S.browsers, id)
        h      == IF exists THEN Entry(S.browsers, id).h ELSE 0
        rec    == [action  |-> action, id |-> id, exists |-> exists,
                   running |-> exists /\ running(S, id),
                   valid   |-> exists /\ valid(Entry(S.browsers, id).cfg),
                   res     |-> res, wops |-> wops, sends |-> sends]
    IN  [S EXCEPT !.calls = Append(@, rec),
                  !.res   = res,
                  !.wops  = @ \o [n \in DOMAIN wops  |-> <<wops[n], h>>],
                  !.sends = @ \o [n \in DOMAIN sends |-> <<sends[n], id>>]]

(***************************************************************************)
(* controlBrowser: the guards of the single-instance actions               *)
(***************************************************************************)
startError_anyId(S, id) ==
    IF Has(S.browsers, id) /\ running(S, id)   THEN "browser already running"
    ELSE IF ~Has(S.browsers, id) \/ ~valid(Entry(S.browsers, id).cfg)
                                                THEN "browser configuration not valid"
    ELSE "none"

startError_restart(S, id) ==
    IF ~Has(S.browsers, id)                     THEN "invalid browser id"
    ELSE IF ~valid(Entry(S.browsers, id).cfg)   THEN "browser configuration not valid"
    ELSE "none"

startError_anyConfig(S, id) ==
    IF ~Has(S.browsers, id)                     THEN "invalid browser id"
    ELSE IF running(S, id)                      THEN "browser already running"
    ELSE "none"

startError(S, id) ==
    IF ~Has(S.browsers, id)                     THEN "invalid browser id"
    ELSE IF running(S, id)                      THEN "browser already running"
    ELSE IF ~valid(Entry(S.browsers, id).cfg)   THEN "browser configuration not valid"
    ELSE "none"

reloadError(S, id) ==
    IF ~Has(S.browsers, id)  THEN "invalid browser id"
    ELSE IF ~running(S, id)  THEN "browser still not running"
    ELSE "none"

stopError_anyState(S, id) ==
    IF ~Has(S.browsers, id)  THEN "invalid browser id"
    ELSE "none"

stopError(S, id) ==
    IF ~Has(S.browsers, id)  THEN "invalid browser id"
    ELSE IF ~running(S, id)  THEN "browser still not running"
    ELSE "none"

clearError(S, id) ==
    IF ~Has(S.browsers, id)  THEN "invalid browser id"
    ELSE IF running(S, id)   THEN "browser still running"
    ELSE "none"

(*  the filters of del and of the bulk actions  *)
delStopsFirst(S, id)     == Has(S.browsers, id) /\ running(S, id)
startAllEligible_stopped(S, id) == ~running(S, id)
startAllEligible(S, id)  == ~running(S, id) /\ valid(Entry(S.browsers, id).cfg)
reloadAllEligible(S, id) == running(S, id)
stopAllEligible(S, id)   == running(S, id)

(***************************************************************************)
(* controlBrowser: the single-instance actions, up to their first await.   *)
(* par, grp, sf and cfg say what awaits the call.                          *)
(***************************************************************************)
Handle(S, id) == Entry(S.browsers, id).h

cbStart_speculative(S, id, par, grp, sf, cfg) ==
    LET err == startError(S, id)
    IN  IF err # "none" THEN Log(S, "start", id, err, <<>>, <<>>)
        ELSE PutFrame(Send(Log(S, "start", id, "pending", <<"start">>, <<"browser-start">>),
                           "browser-started", id),
                      Frame("start", id, Handle(S, id), par, grp, sf, cfg))

cbStart(S, id, par, grp, sf, cfg) ==
    LET err == startError(S, id)
    IN  IF err # "none" THEN Log(S, "start", id, err, <<>>, <<>>)
        ELSE PutFrame(Log(S, "start", id, "pending", <<"start">>, <<"browser-start">>),
                      Frame("start", id, Handle(S, id), par, grp, sf, cfg))

cbReload(S, id) ==
    LET err == reloadError(S, id)
    IN  IF err # "none" THEN Log(S, "reload", id, err, <<>>, <<>>)
        ELSE Log(S, "reload", id, "ok", <<"reload">>, <<"browser-reload", "browser-reloaded">>)

cbStop(S, id, par, grp, sf, cfg) ==
    LET err == stopError(S, id)
    IN  IF err # "none" THEN Log(S, "stop", id, err, <<>>, <<>>)
        ELSE PutFrame(Log(S, "stop", id, "pending", <<"stop">>, <<"browser-stop">>),
                      Frame("stop", id, Handle(S, id), par, grp, sf, cfg))

cbClear(S, id, sf) ==
    LET err == clearError(S, id)
    IN  IF err # "none" THEN Log(S, "clear", id, err, <<>>, <<>>)
        ELSE PutFrame(Log(S, "clear", id, "pending", <<"clear">>, <<"browser-clear">>),
                      Frame("clear", id, Handle(S, id), "", 0, sf, EmptyObj))

cbAdd(S, id, cfg) ==
    NewBrowser(Log(S, "add", id, "ok", <<>>, <<>>), id, cfg)

cbMod_recreate(S, id, cfg) ==
    IF ~Has(S.browsers, id) THEN Log(S, "mod", id, "TypeError", <<>>, <<>>)
    ELSE NewBrowser(Log(S, "mod", id, "ok", <<>>, <<>>), id, cfg)

cbMod_upsert(S, id, cfg) ==
    IF ~Has(S.browsers, id) THEN NewBrowser(Log(S, "mod", id, "ok", <<>>, <<>>), id, cfg)
    ELSE reconfigure(Log(S, "mod", id, "ok", <<>>, <<>>), id, cfg)

cbMod(S, id, cfg) ==
    IF ~Has(S.browsers, id) THEN Log(S, "mod", id, "TypeError", <<>>, <<>>)
    ELSE reconfigure(Log(S, "mod", id, "ok", <<>>, <<>>), id, cfg)

cbDel(S, id, sf) ==
    IF delStopsFirst(S, id)
    THEN LET S1 == cbStop(S, id, "del", 0, sf, EmptyObj)
         IN  Log(S1, "del", id, S1.res, <<>>, <<>>)
    ELSE [Log(S, "del", id, "ok", <<>>, <<>>) EXCEPT !.browsers = Remove(@, id)]

(*  a worker stop nobody awaits  *)
stopDetached_none(S, id, h) == S

stopDetached(S, id, h) ==
    PutFrame(Invoke(S, "stop", h), Frame("xstop", id, h, "", 0, "", EmptyObj))

RECURSIVE pruneLoop(_, _)
pruneLoop(S, ids) ==
    IF ids = <<>> THEN S
    ELSE LET id == Head(ids)
             S1 == IF running(S, id) THEN stopDetached(S, id, Handle(S, id)) ELSE S
         IN  pruneLoop([S1 EXCEPT !.browsers = Remove(@, id)], Tail(ids))

cbPrune(S) ==
    LET S1 == pruneLoop(S, Keys(S.browsers))
    IN  [S1 EXCEPT !.calls = Append(@, [action |-> "prune", id |-> "", exists |-> FALSE,
                                        running |-> FALSE, valid |-> FALSE, res |-> "ok",
                                        wops |-> <<>>, sends |-> <<>>]),
                   !.res = "ok"]

(***************************************************************************)
(* controlBrowser: the bulk actions.  The loop calls controlBrowser for    *)
(* every eligible id, Promise.all joins the calls.                         *)
(***************************************************************************)
RECURSIVE bulkLoop(_, _, _, _, _, _)
bulkLoop(S, action, ids, g, sf, err) ==
    IF ids = <<>> THEN [S |-> S, err |-> err]
    ELSE LET id == Head(ids)
             S1 == CASE action = "start-all"  ->
                          IF startAllEligible(S, id)
                          THEN cbStart(S, id, "bulk", g, sf, EmptyObj) ELSE S
                     [] action = "reload-all" ->
                          IF reloadAllEligible(S, id) THEN cbReload(S, id) ELSE S
                     [] OTHER ->
                          IF stopAllEligible(S, id)
                          THEN cbStop(S, id, "bulk", g, sf, EmptyObj) ELSE S
             thrown == Len(S1.calls) > Len(S.calls) /\ S1.res \notin {"ok", "pending"}
         IN  bulkLoop(S1, action, Tail(ids), g, sf,
                      IF err = "none" /\ thrown THEN S1.res ELSE err)

(*  Promise.all has rejected: nobody awaits the calls of group g any more  *)
RECURSIVE Detach(_, _)
Detach(fs, g) ==
    IF Group(fs, g) = {} THEN fs
    ELSE LET fr == CHOOSE x \in Group(fs, g) : TRUE
         IN  Detach((fs (-) SetToBag({fr}))
                        (+) SetToBag({[fr EXCEPT !.par = "", !.grp = 0, !.sf = ""]}), g)

cbBulk(S, action, sf) ==
    LET g  == NewGroup(S.frames)
        R  == bulkLoop(S, action, Keys(S.browsers), g, sf, "none")
        S1 == R.S
    IN  IF Cardinality({fr.grp : fr \in BagToSet(S1.frames)} \ {0}) > MaxBulk
        THEN [S EXCEPT !.ovf = TRUE]
        ELSE IF R.err # "none"
        THEN Log([S1 EXCEPT !.frames = Detach(@, g)], action, "", R.err, <<>>, <<>>)
        ELSE IF Group(S1.frames, g) = {}
        THEN Log(S1, action, "", "ok", <<>>, <<>>)
        ELSE Log(S1, action, "", "pending", <<>>, <<>>)

controlBrowser(S, action, id, cfg, sf) ==
    CASE action = "prune"  -> cbPrune(S)
      [] action = "add"    -> cbAdd(S, id, cfg)
      [] action = "mod"    -> cbMod(S, id, cfg)
      [] action = "del"    -> cbDel(S, id, sf)
      [] action \in {"start-all", "reload-all", "stop-all"} -> cbBulk(S, action, sf)
      [] action = "start"  -> cbStart(S, id, "", 0, sf, EmptyObj)
      [] action = "reload" -> cbReload(S, id)
      [] action = "stop"   -> cbStop(S, id, "", 0, sf, EmptyObj)
      [] action = "clear"  -> cbClear(S, id, sf)
      [] OTHER             -> Result(S, "ok")

(***************************************************************************)
(* YAML scalars.  A scalar of a file is its style and its text; a file is  *)
(* garbage (the parser throws), empty (the parser returns null) or a list  *)
(* of mappings from key to scalar.                                         *)
(***************************************************************************)
Quoted(text) == <<"dq", text>>
Plain(text)  == <<"plain", text>>

(*  jsYAML.dump(value, { forceQuotes: true, quotingType: "\"", ... })  *)
Dump_plain(value) ==
    CASE value = Num("NaN") -> Plain(".nan")
      [] value = Null       -> Plain("null")
      [] OTHER              -> Plain(value[2])

Dump(value) ==
    CASE TypeOf(value) = "string" -> Quoted(value[2])
      [] value = Num("NaN")       -> Plain(".nan")
      [] value = Null             -> Plain("null")
      [] OTHER                    -> Plain(value[2])

(*  jsYAML.load on one scalar: the core schema resolves a plain scalar  *)
Load(scalar) ==
    IF scalar[1] = "dq" THEN Str(scalar[2])
    ELSE CASE scalar[2] \in {"true", "false"} -> Bool(scalar[2] = "true")
           [] scalar[2] \in {"null", "~", ""}  -> Null
           [] scalar[2] = ".nan"               -> Num("NaN")
           [] scalar[2] \in Numerals           -> Num(scalar[2])
           [] scalar[2] = "1.0"                -> Num("1")
           [] OTHER                            -> Str(scalar[2])

(*  exported, of: whether an export wrote the file, and from which
    instance-config set  *)
Garbage       == [kind |-> "garbage", doc |-> <<>>, exported |-> FALSE, of |-> <<>>]
EmptyFile     == [kind |-> "empty",   doc |-> <<>>, exported |-> FALSE, of |-> <<>>]
ListFile(doc) == [kind |-> "list",    doc |-> doc,  exported |-> FALSE, of |-> <<>>]

(***************************************************************************)
(* Persistence                                                             *)
(***************************************************************************)
(*  JSON.stringify, and JSON.parse of the text: an undefined member is left
    out, NaN becomes null  *)
Json(cfgArray) ==
    [n \in DOMAIN cfgArray |->
        [key \in {k \in DOMAIN cfgArray[n] : cfgArray[n][k] # Undefined} |->
            IF cfgArray[n][key] = Num("NaN") THEN Null ELSE cfgArray[n][key]]]

saveConfigs_sameVersion(S, cfgArray) ==
    [S EXCEPT !.store = Json(cfgArray), !.stored = TRUE, !.saves = @ + 1]

saveConfigs(S, cfgArray) ==
    IF S.configVersion >= MaxVersion THEN [S EXCEPT !.ovf = TRUE]
    ELSE [S EXCEPT !.store = Json(cfgArray), !.stored = TRUE, !.saves = @ + 1,
                   !.configVersion = @ + 1]

(*  loadConfigs: S after the call, and the array it returns  *)
loadConfigs(S) ==
    LET R  == [n \in DOMAIN S.store |-> sanitizeConfig(S.store[n])]
        bs == [n \in DOMAIN S.store |-> R[n].cfg]
    IN  [S |-> IF ~S.stored \/ \E n \in DOMAIN R : R[n].changed > 0
               THEN saveConfigs(S, bs) ELSE S,
         browsers |-> bs]

(*  exportConfig: one mapping per instance, a line per schema field  *)
exportConfig(S) ==
    LET L   == loadConfigs(S)
        doc == [n \in DOMAIN L.browsers |->
                   [ename \in ExternalNames |->
                       Dump(Coerce(FieldNamed(ename).etype,
                                   Get(L.browsers[n], FieldNamed(ename).iname)))]]
    IN  [L.S EXCEPT !.file = [IF doc = <<>> THEN EmptyFile ELSE ListFile(doc)
                                 EXCEPT !.exported = TRUE, !.of = S.store]]

legacyFields ==
    {"Output1Enabled", "Output1VideoPositionX", "Output1VideoPositionY",
     "Output1VideoDisplay", "Output1VideoPinTop", "Output1AudioDevice",
     "D", "x", "y", "d", "p", "A"}

(*  importConfig, the body of its loop: the record parsed from the file gets
    an id, internal names with coerced values, loses the legacy fields and
    is sanitized  *)
importBrowser_raw(rec, id) ==
    LET b0 == [key \in DOMAIN rec |-> Load(rec[key])]
        b1 == IF Get(b0, "id") = Undefined THEN Spread(b0, "id" :> Str(id)) ELSE b0
        given == {n \in DOMAIN fields : fields[n].ename \in DOMAIN b1}
    IN  [key \in (DOMAIN b1 \ ExternalNames) \cup {fields[n].iname : n \in given} |->
            IF \E n \in given : fields[n].iname = key
            THEN LET f == FieldOf(key) IN Coerce(f.itype, b1[f.ename])
            ELSE b1[key]]

importBrowser_uncoerced(rec, id) ==
    LET b0 == [key \in DOMAIN rec |-> Load(rec[key])]
        b1 == IF Get(b0, "id") = Undefined THEN Spread(b0, "id" :> Str(id)) ELSE b0
        given == {n \in DOMAIN fields : fields[n].ename \in DOMAIN b1}
        b2 == [key \in (DOMAIN b1 \ ExternalNames) \cup {fields[n].iname : n \in given} |->
                  IF \E n \in given : fields[n].iname = key
                  THEN b1[FieldOf(key).ename]
                  ELSE b1[key]]
    IN  sanitizeConfig([key \in DOMAIN b2 \ legacyFields |-> b2[key]]).cfg

importBrowser(rec, id) ==
    LET b0 == [key \in DOMAIN rec |-> Load(rec[key])]
        b1 == IF Get(b0, "id") = Undefined THEN Spread(b0, "id" :> Str(id)) ELSE b0
        given == {n \in DOMAIN fields : fields[n].ename \in DOMAIN b1}
        b2 == [key \in (DOMAIN b1 \ ExternalNames) \cup {fields[n].iname : n \in given} |->
                  IF \E n \in given : fields[n].iname = key
                  THEN LET f == FieldOf(key) IN Coerce(f.itype, b1[f.ename])
                  ELSE b1[key]]
    IN  sanitizeConfig([key \in DOMAIN b2 \ legacyFields |-> b2[key]]).cfg

(*  the ids importConfig generates: one for each record that has none  *)
RECURSIVE importIds(_, _)
importIds(doc, next) ==
    IF doc = <<>> THEN <<>>
    ELSE IF "id" \in DOMAIN Head(doc)
         THEN <<"">> \o importIds(Tail(doc), next)
         ELSE <<UuidOf(next)>> \o importIds(Tail(doc), next + 1)

importConfig_lenient(S) ==
    LET doc == S.file.doc
        ids == importIds(doc, S.uuid + 1)
        new == Cardinality({n \in DOMAIN ids : ids[n] # ""})
        bs  == [n \in DOMAIN doc |-> importBrowser(doc[n], ids[n])]
    IN  Result(saveConfigs([S EXCEPT !.uuid = @ + new, !.ovf = S.uuid + new > MaxUuid], bs),
               "undefined")

importConfig(S) ==
    LET doc == S.file.doc
        ids == importIds(doc, S.uuid + 1)
        new == Cardinality({n \in DOMAIN ids : ids[n] # ""})
        bs  == [n \in DOMAIN doc |-> importBrowser(doc[n], ids[n])]
    IN  IF S.file.kind = "garbage" THEN Result(S, "false")
        ELSE Result(saveConfigs([S EXCEPT !.uuid = @ + new, !.ovf = S.uuid + new > MaxUuid], bs),
                    "undefined")

(*  debounce(delay, callback): a call sets the timer to the whole delay, also
    when it is already set; due is the time left, -1 when no timer is set  *)
delay  == 10 * 1000
TickMs == 5 * 1000

debounce_noReset(due) == IF due = -1 THEN delay ELSE due
debounce(due)         == delay

(*  since is the time since the last call and calls the number of calls the
    timer has taken in since it was last set from rest  *)
debouncedAutosave(S) ==
    [S EXCEPT !.autosave.calls = IF S.autosave.due = -1 THEN 1 ELSE @ + 1,
              !.autosave.due   = debounce(@),
              !.autosave.since = 0]

saveBrowsersToStore(S) ==
    LET cfgArray == [n \in DOMAIN S.browsers |->
                        Spread(("id" :> Str(S.browsers[n].id)), S.browsers[n].cfg)]
    IN  debouncedAutosave(Send(saveConfigs(S, cfgArray), "browsers-refresh", ""))

(*  autosaveConfig: the document of exportConfig, written to the autosave file  *)
writeFile(E, S) == [E EXCEPT !.file = S.file, !.autosave.doc = E.file.doc]

autosaveConfig(S) == writeFile(exportConfig(S), S)

(***************************************************************************)
(* Continuations: what runs when an awaited call completes                 *)
(***************************************************************************)
(*  control.on("close") after its stop-all: the listeners, then the window  *)
hapi == Undefined

Did(S, step) == [S EXCEPT !.closing.steps = Append(@, step)]

closeListeners(S) ==
    LET S1 == IF Truthy(hapi) THEN Did([S EXCEPT !.server.api = FALSE], "api.stop") ELSE S
        S2 == IF Truthy(hapi) THEN Did([S1 EXCEPT !.server.webui = FALSE], "webui.stop") ELSE S1
    IN  [Did(S2, "destroy") EXCEPT !.closing.pc = "closed"]

(*  the handler that awaited the outermost call answers its caller  *)
Answer(S, sf, outcome) ==
    CASE sf = "local"     -> [S EXCEPT !.ans = outcome]
      [] sf = "close"     -> closeListeners(Did(S, "stop-all"))
      [] sf = "rest"      -> IF outcome = "ok" THEN Respond(S, 200)
                             ELSE Reject(S, 417, outcome)
      [] sf \in {"webui-cmd", "webui-all"} ->
                             IF outcome = "ok" THEN Respond(S, 200)
                             ELSE Reject(S, 500, outcome)
      [] sf = "webui-del" -> IF outcome = "ok"
                             THEN Respond(saveBrowsersToStore(S), 200)
                             ELSE Reject(S, 500, outcome)
      [] OTHER            -> S

(*  PATCH /api/instances/:id after its stop, and after its start  *)
patchContinue(S, fr, outcome) ==
    LET S1 == cbMod(S, fr.id, fr.cfg)
        S2 == cbStart(S1, fr.id, "patch", 0, fr.sf, fr.cfg)
    IN  IF outcome # "ok" THEN Reject(S, 500, outcome)
        ELSE IF fr.k = "start" THEN Respond(saveBrowsersToStore(S), 200)
        ELSE IF S1.res # "ok" THEN Reject(S1, 500, S1.res)
        ELSE IF S2.res # "pending" THEN Reject(S2, 500, S2.res)
        ELSE S2

(*  await Promise.all(p): every call of the group has settled  *)
allSettled_any(fs, g) == TRUE
allSettled(fs, g)     == Group(fs, g) = {}

(*  the controlBrowser call of frame fr has completed, and with it the calls
    that awaited it  *)
Complete(S, fr, outcome) ==
    LET S1 == Done(S, fr.k, fr.id, outcome)
    IN  CASE fr.par = "del" ->
               IF outcome = "ok"
               THEN Answer(Done([S1 EXCEPT !.browsers = Remove(@, fr.id)], "del", fr.id, "ok"),
                           fr.sf, "ok")
               ELSE Answer(Done(S1, "del", fr.id, outcome), fr.sf, outcome)
          [] fr.par = "bulk" ->
               IF allSettled(S1.frames, fr.grp)
               THEN Answer(Done(S1, fr.k \o "-all", "", "ok"), fr.sf, "ok")
               ELSE S1
          [] fr.par = "patch" -> patchContinue(S1, fr, outcome)
          [] OTHER -> Answer(S1, fr.sf, outcome)

(*  the worker promise of frame fr settles; a start resolves with success or not  *)
settle(S, fr, success) ==
    LET S0 == Release(S, fr)
    IN  CASE fr.k = "start" ->
               IF success
               THEN Complete(Send([S0 EXCEPT !.worker[fr.h] = TRUE], "browser-started", fr.id),
                             fr, "ok")
               ELSE Complete(stopDetached(Send(S0, "browser-failed", fr.id), fr.id, fr.h),
                             fr, "ok")
          [] fr.k = "stop" ->
               Complete(Send([S0 EXCEPT !.worker[fr.h] = FALSE], "browser-stopped", fr.id),
                        fr, "ok")
          [] fr.k = "clear" ->
               Complete(Send(S0, "browser-cleared", fr.id), fr, "ok")
          [] OTHER ->
               [S0 EXCEPT !.worker[fr.h] = FALSE]

(***************************************************************************)
(* Steps                                                                   *)
(***************************************************************************)
(*  before: what the registry and the workers said when the step began;
    removed: the Browser objects whose id left the registry in the step;
    added: the ids that entered it; same: registry and workers are as before;
    kept: the stored instance-config set and its version are as before  *)
Event(S, src, op, id, arg) ==
    [src |-> src, op |-> op, id |-> id, arg |-> arg, ans |-> S.ans, http |-> S.http,
     msg |-> S.msg, saves |-> S.saves,
     calls |-> S.calls, done |-> S.done, sends |-> S.sends, wops |-> S.wops,
     before  |-> {[id |-> browsers[n].id, running |-> worker[browsers[n].h],
                   t |-> Get(browsers[n].cfg, "t"), N |-> Get(browsers[n].cfg, "N")] :
                       n \in DOMAIN browsers},
     removed |-> {browsers[n].h : n \in {m \in DOMAIN browsers : ~Has(S.browsers, browsers[m].id)}},
     added   |-> {S.browsers[n].id : n \in {m \in DOMAIN S.browsers : ~Has(browsers, S.browsers[m].id)}},
     same    |-> S.browsers = browsers /\ S.worker = worker,
     kept    |-> S.store = store /\ S.configVersion = configVersion]

Apply(S, src, op, id, arg) ==
    /\ ~S.ovf
    /\ browsers'      = S.browsers
    /\ worker'        = S.worker
    /\ nextH'         = S.nextH
    /\ frames'        = S.frames
    /\ store'         = S.store
    /\ configVersion' = S.configVersion
    /\ uuid'          = S.uuid
    /\ file'          = S.file
    /\ replaced'      = S.replaced
    /\ stored'        = S.stored
    /\ server'        = S.server
    /\ closing'       = S.closing
    /\ autosave'      = S.autosave
    /\ ev'            = Event(S, src, op, id, arg)
    /\ UNCHANGED <<probe, cpuHighCount, usage, mediaDir, uploads, adapter>>

Init ==
    /\ browsers      = <<>>
    /\ worker        = <<>>
    /\ nextH         = 1
    /\ frames        = EmptyBag
    /\ store         = <<>>
    /\ configVersion = 0
    /\ uuid          = 0
    /\ mounted       = TRUE
    /\ probe         = [in |-> EmptyObj, out |-> EmptyObj, changed |-> 0, n |-> 0]
    /\ file          = EmptyFile
    /\ replaced      = {}
    /\ stored        = FALSE
    /\ server        = [api |-> TRUE, webui |-> TRUE]
    /\ closing       = [pc |-> "no", steps |-> <<>>]
    /\ cpuHighCount  = 0
    /\ usage         = [avg |-> 0, run |-> 0, alert |-> FALSE, alerts |-> 0, runs |-> 0, n |-> 0]
    /\ mediaDir      = <<>>
    /\ uploads       = [u \in 1..MaxUploads |-> [pc |-> "new", stamp |-> "", ext |-> "", counter |-> 0]]
    /\ adapter       = [a \in {"api", "webui"} |->
                            [enabled |-> FALSE, addr |-> Str("127.0.0.1"), port |-> Str(defaultPort(a)),
                             server |-> "null", bound |-> <<>>]]
    /\ autosave      = [due |-> -1, since |-> -1, calls |-> 0, doc |-> <<>>]
    /\ ev            = Event(Cur, "init", "", "", "")

Actions  == {"add", "mod", "del", "start", "stop", "reload", "clear",
             "start-all", "stop-all", "reload-all", "prune"}
Commands == {"start", "stop", "reload", "clear", "bogus"}
Titles   == {"Cam1", "Nope"}

(*  ipcMain.handle("control"): the local control channel  *)
Control(action, id, cfg) ==
    LET S == controlBrowser(Cur, action, id, cfg, "local")
    IN  /\ Apply([S EXCEPT !.ans = IF S.res = "pending" THEN "" ELSE S.res],
                 "local", action, id, "")
        /\ UNCHANGED mounted

(*  the timer of control-mounted: --autostart, else the InstanceAutoStart flags  *)
RECURSIVE autoLoop(_, _)
autoLoop(S, ids) ==
    IF ids = <<>> THEN S
    ELSE LET id == Head(ids)
             e  == Entry(S.browsers, id)
         IN  autoLoop(IF Truthy(Get(e.cfg, "as")) /\ ~running(S, id) /\ valid(e.cfg)
                      THEN cbStart(S, id, "", 0, "", EmptyObj) ELSE S,
                      Tail(ids))

MountedTimer(autostart) ==
    /\ mounted
    /\ mounted' = FALSE
    /\ IF autostart
       THEN Apply(controlBrowser(Cur, "start-all", "", EmptyObj, ""),
                  "autostart", "start-all", "", "")
       ELSE Apply(autoLoop(Cur, Keys(browsers)), "autostart", "start", "", "")

(*  the global hotkey  *)
Hotkey ==
    /\ Apply(controlBrowser(Cur, "stop-all", "", EmptyObj, ""), "hotkey", "stop-all", "", "")
    /\ UNCHANGED mounted

(*  REST API: /:browser/:command  *)
ByTitle(bs, title) ==
    LET hits == {n \in DOMAIN bs : Get(bs[n].cfg, "t") = Str(title)}
    IN  IF hits = {} THEN "" ELSE bs[Min(hits)].id

RestAnswer_uncaught(S) ==
    IF S.res = "ok" THEN Respond(S, 200) ELSE S

RestAnswer(S) ==
    IF S.res = "pending" THEN S
    ELSE IF S.res = "ok" THEN Respond(S, 200)
    ELSE Reject(S, 417, S.res)

Rest(browser, command) ==
    LET id == ByTitle(browsers, browser)
        S  == IF browser = "all"
              THEN IF command \in {"start", "reload", "stop"}
                   THEN RestAnswer(controlBrowser(Cur, command \o "-all", "", EmptyObj, "rest"))
                   ELSE Reject(Cur, 400, "invalid command")
              ELSE IF id = "" THEN Reject(Cur, 404, "invalid browser title/name")
              ELSE IF command \in {"start", "reload", "stop", "clear"}
                   THEN RestAnswer(controlBrowser(Cur, command, id, EmptyObj, "rest"))
                   ELSE Reject(Cur, 400, "invalid command")
    IN  /\ Apply(S, "rest", command, browser, "")
        /\ UNCHANGED mounted

(***************************************************************************)
(* Web dashboard API                                                       *)
(***************************************************************************)
Bodies == {CfgCam, ("t" :> Str("")), ("id" :> Str("A"))}

WebAnswer(S) ==
    IF S.res = "pending" THEN S
    ELSE IF S.res = "ok" THEN Respond(S, 200)
    ELSE Reject(S, 500, S.res)

(*  POST /api/instances  *)
WebUICreate(body) ==
    LET id  == UuidOf(uuid + 1)
        cfg == sanitizeConfig(Spread(("id" :> Str(id)), body)).cfg
        S0  == [Cur EXCEPT !.uuid = @ + 1, !.ovf = uuid >= MaxUuid]
        S1  == controlBrowser(S0, "add", id, cfg, "webui")
    IN  /\ Apply(Respond(saveBrowsersToStore(S1), 201), "webui", "create", id, "")
        /\ UNCHANGED mounted

(*  PATCH /api/instances/:id  *)
WebUIPatch(id, body) ==
    LET cfg == sanitizeConfig(Spread(Entry(browsers, id).cfg, body)).cfg
        wasRunning == running(Cur, id)
        S1  == cbStop(Cur, id, "patch", 0, "webui-patch", cfg)
        S2  == cbMod(Cur, id, cfg)
        S   == IF ~Has(browsers, id) THEN Reject(Cur, 404, "instance not found")
               ELSE IF wasRunning
               THEN IF S1.res = "pending" THEN S1 ELSE Reject(S1, 500, S1.res)
               ELSE IF S2.res # "ok" THEN Reject(S2, 500, S2.res)
               ELSE Respond(saveBrowsersToStore(S2), 200)
    IN  /\ Apply(S, "webui", "patch", id, "")
        /\ UNCHANGED mounted

(*  DELETE /api/instances/:id  *)
WebUIDelete(id) ==
    LET S1 == controlBrowser(Cur, "del", id, EmptyObj, "webui-del")
        S  == IF ~Has(browsers, id) THEN Reject(Cur, 404, "instance not found")
              ELSE IF S1.res = "pending" THEN S1
              ELSE IF S1.res = "ok" THEN Respond(saveBrowsersToStore(S1), 200)
              ELSE Reject(S1, 500, S1.res)
    IN  /\ Apply(S, "webui", "delete", id, "")
        /\ UNCHANGED mounted

(*  /api/instances/:id/:command, raced against the 12 s timer  *)
WebUICommand(id, command) ==
    LET S == IF command \notin {"start", "stop", "reload", "clear"} THEN Reject(Cur, 400, "invalid command")
             ELSE IF ~Has(browsers, id) THEN Reject(Cur, 404, "instance not found")
             ELSE WebAnswer(controlBrowser(Cur, command, id, EmptyObj, "webui-cmd"))
    IN  /\ Apply(S, "webui", command, id, "")
        /\ UNCHANGED mounted

(*  the 12 s timer of a command request fires first  *)
TimedOut == "operation timed out after 12 seconds"

WebUITimeout_never(fr) ==
    /\ FALSE
    /\ UNCHANGED vars

WebUITimeout(fr) ==
    /\ fr.sf = "webui-cmd"
    /\ Apply(Reject(PutFrame(Release(Cur, fr), [fr EXCEPT !.sf = ""]), 500, TimedOut),
             "timer", "timeout", fr.id, "")
    /\ UNCHANGED mounted

(*  /api/all/:command  *)
WebUIAll(command) ==
    LET S == IF command \notin {"start", "stop", "reload"} THEN Reject(Cur, 400, "invalid command")
             ELSE WebAnswer(controlBrowser(Cur, command \o "-all", "", EmptyObj, "webui-all"))
    IN  /\ Apply(S, "webui", command \o "-all", "", "")
        /\ UNCHANGED mounted

(***************************************************************************)
(* Shutdown: control.on("close")                                           *)
(***************************************************************************)
(*  the handler up to the file write of the final autosave  *)
Close ==
    /\ closing.pc = "no"
    /\ Apply([loadConfigs(Cur).S EXCEPT !.closing.pc = "autosave"], "window", "close", "", "")
    /\ UNCHANGED mounted

(*  the autosave file is written; the handler goes on to the stop-all  *)
awaitStopAll(S2) ==
    IF S2.res = "pending" THEN [S2 EXCEPT !.closing.pc = "stop-all"]
    ELSE closeListeners(Did(S2, "stop-all"))

closeStopAll(S1) == awaitStopAll(controlBrowser(S1, "stop-all", "", EmptyObj, "close"))

AutosaveDone ==
    /\ closing.pc = "autosave"
    /\ Apply(closeStopAll(Send(Did(Cur, "autosave"), "autosave-done", "")),
             "window", "autosave", "", "")
    /\ UNCHANGED mounted

(*  the autosave file cannot be written: performAutosave logs the error and
    the handler goes on to the stop-all  *)
AutosaveFailed ==
    /\ closing.pc = "autosave"
    /\ Apply(closeStopAll(Did(Cur, "autosave")), "window", "autosave", "", "failed")
    /\ UNCHANGED mounted

(***************************************************************************)
(* The worker settles the promise a call awaits                            *)
(***************************************************************************)
WorkerSettle(fr, success) ==
    /\ fr.k # "start" => success
    /\ Apply(settle(Cur, fr, success), "worker", fr.k, fr.id,
             IF success THEN "resolved" ELSE "failed")
    /\ UNCHANGED mounted

(*  the worker's stop rejects: the call that awaited it throws, and so does
    every call that awaited that one; the close handler ends where it is  *)
rejectAll(S2, fr) ==
    IF fr.sf = "close" THEN [S2 EXCEPT !.closing.pc = "failed"]
    ELSE Answer(S2, fr.sf, "stop failed")

rejectCall(S0, fr) ==
    IF fr.par # "bulk" THEN Complete(S0, fr, "stop failed")
    ELSE rejectAll(Done([Done(S0, fr.k, fr.id, "stop failed")
                            EXCEPT !.frames = Detach(@, fr.grp)],
                        "stop-all", "", "stop failed"), fr)

reject(S, fr, stopped) ==
    rejectCall([Release(S, fr) EXCEPT !.worker[fr.h] = IF stopped THEN FALSE ELSE @], fr)

WorkerReject(fr, stopped) ==
    /\ fr.k = "stop"
    /\ Apply(reject(Cur, fr, stopped), "worker", fr.k, fr.id, "rejected")
    /\ UNCHANGED mounted

(***************************************************************************)
(* Spec: the state machine driven through the local control channel, the   *)
(* surface that can issue every action on every id, and the worker         *)
(***************************************************************************)
Next ==
    \/ \E action \in {"add", "mod"}, cfg \in Inputs : Control(action, "A", cfg)
    \/ \E action \in {"del", "start", "stop", "reload", "clear", "prune"} :
            Control(action, "A", EmptyObj)
    \/ \E fr \in BagToSet(frames), success \in BOOLEAN : WorkerSettle(fr, success)

Spec == Init /\ [][Next]_vars

(***************************************************************************)
(* SpecBulk: two instances and start-all from each surface that offers it; *)
(* at most MaxBulk bulk requests are in progress and every worker start    *)
(* succeeds                                                                *)
(***************************************************************************)
Ids == {"A", "B"}

NextBulk ==
    \/ \E id \in Ids, cfg \in Inputs : Control("add", id, cfg)
    \/ Control("start-all", "", EmptyObj)
    \/ Rest("all", "start")
    \/ WebUIAll("start")
    \/ MountedTimer(TRUE)
    \/ \E fr \in BagToSet(frames) : WorkerSettle(fr, TRUE)

SpecBulk == Init /\ [][NextBulk]_vars

(***************************************************************************)
(* SpecJoin: two startable instances and the three bulk actions on the     *)
(* local channel; a worker start succeeds or fails                         *)
(***************************************************************************)
NextJoin ==
    \/ \E id \in Ids : Control("add", id, CfgCam)
    \/ \E action \in {"start-all", "stop-all", "reload-all"} : Control(action, "", EmptyObj)
    \/ \E fr \in BagToSet(frames), success \in BOOLEAN : WorkerSettle(fr, success)

SpecJoin == Init /\ [][NextJoin]_vars

(***************************************************************************)
(* SpecDeadline: one instance, added once, the REST API's and the          *)
(* dashboard's command requests, and the dashboard's 12 s timers.  A timer that is set fires;  *)
(* nothing makes the worker settle a call.                                 *)
(***************************************************************************)
Requests == {"start", "stop", "bogus"}

NextDeadline ==
    \/ ~Has(browsers, "A") /\ Control("add", "A", CfgCam)
    \/ \E browser \in Titles, command \in Requests : Rest(browser, command)
    \/ \E id \in {"A", "Z"}, command \in Requests : WebUICommand(id, command)
    \/ \E fr \in BagToSet(frames) : WebUITimeout(fr)
    \/ \E fr \in BagToSet(frames), success \in BOOLEAN : WorkerSettle(fr, success)

SpecDeadline ==
    /\ Init /\ [][NextDeadline]_vars
    /\ WF_vars(\E fr \in BagToSet(frames) : WebUITimeout(fr))

(***************************************************************************)
(* SpecShutdown: one instance, started and stopped on the local channel    *)
(* and the REST API, and the close of the control window; when the window  *)
(* is destroyed the application quits                                      *)
(***************************************************************************)
NextShutdown ==
    /\ closing.pc # "closed"
    /\ \/ ~Has(browsers, "A") /\ Control("add", "A", CfgCam)
       \/ \E action \in {"start", "stop"} : Control(action, "A", EmptyObj)
       \/ \E command \in {"start", "stop"} : server.api /\ Rest("Cam1", command)
       \/ \E fr \in BagToSet(frames), success \in BOOLEAN : WorkerSettle(fr, success)
       \/ Close
       \/ AutosaveDone

SpecShutdown == Init /\ [][NextShutdown]_vars

(***************************************************************************)
(* SpecCpu: the usage timer, until the close of the control window clears  *)
(* it; the weighted average of a sample is any of Averages                 *)
(***************************************************************************)
Averages == {50, 79, 80, 95}

cpuAlert_level(count) == count >= 3
cpuAlert(count)       == count = 3

(*  the callback of usages.record: stat.avg is avg  *)
Usage(avg) ==
    LET high  == avg >= 80
        count == IF high THEN cpuHighCount + 1 ELSE 0
        alert == high /\ cpuAlert(count)
        run   == IF high THEN usage.run + 1 ELSE 0
    IN  /\ closing.pc = "no"
        /\ usage.n < MaxSamples
        /\ cpuHighCount' = count
        /\ usage' = [avg |-> avg, run |-> run, alert |-> alert,
                     alerts |-> usage.alerts + (IF alert THEN 1 ELSE 0),
                     runs   |-> usage.runs + (IF run = 3 THEN 1 ELSE 0),
                     n      |-> usage.n + 1]
        /\ UNCHANGED <<browsers, worker, nextH, frames, store, configVersion, uuid, mounted,
                       probe, file, replaced, stored, server, closing, mediaDir, uploads, adapter, autosave, ev>>

NextCpu ==
    \/ \E avg \in Averages : Usage(avg)
    \/ Close

SpecCpu == Init /\ [][NextCpu]_vars

(***************************************************************************)
(* SpecMod: two instances, each added once, modified, started and stopped  *)
(* on the local channel                                                    *)
(***************************************************************************)
NextMod ==
    \/ \E id \in Ids : ~Has(browsers, id) /\ Control("add", id, CfgCam)
    \/ \E id \in Ids, cfg \in Inputs : Control("mod", id, cfg)
    \/ \E id \in Ids, action \in {"start", "stop"} : Control(action, id, EmptyObj)
    \/ \E fr \in BagToSet(frames), success \in BOOLEAN : WorkerSettle(fr, success)

SpecMod == Init /\ [][NextMod]_vars

(***************************************************************************)
(* SpecPatch: one instance created on the dashboard, started and stopped   *)
(* on the local channel and patched on the dashboard; a worker start       *)
(* succeeds or fails                                                       *)
(***************************************************************************)
NextPatch ==
    \/ browsers = <<>> /\ WebUICreate(CfgCam)
    \/ \E action \in {"start", "stop"} : Control(action, "U1", EmptyObj)
    \/ \E body \in Bodies : WebUIPatch("U1", body)
    \/ \E fr \in BagToSet(frames), success \in BOOLEAN : WorkerSettle(fr, success)

SpecPatch == Init /\ [][NextPatch]_vars

(***************************************************************************)
(* SpecMedia: POST /api/media/upload, at most MaxUploads requests; a       *)
(* request is in the second Stamps names when its handler begins           *)
(***************************************************************************)
Stamps      == {"20260101_120000", "20260101_120001"}
Exts        == {".png", ".exe"}
allowedExts == {".png", ".jpg", ".jpeg", ".gif", ".webp", ".bmp", ".svg",
                ".mp4", ".webm", ".ogg", ".mov"}

(*  safeName: AppName_YYYYMMDD_HHmmss[_N].ext  *)
safeName(up) == <<up.stamp, up.counter, up.ext>>

RestOfState ==
    <<browsers, worker, nextH, frames, store, configVersion, uuid, mounted, probe,
      file, replaced, stored, server, closing, cpuHighCount, usage, autosave, ev>>

(*  the handler up to its first fs.promises.access  *)
UploadBegin(u, ext, stamp) ==
    /\ uploads[u].pc = "new"
    /\ uploads' = [uploads EXCEPT ![u] =
                      IF ext \notin allowedExts
                      THEN [pc |-> "415", stamp |-> stamp, ext |-> ext, counter |-> 0]
                      ELSE [pc |-> "access", stamp |-> stamp, ext |-> ext, counter |-> 0]]
    /\ UNCHANGED <<mediaDir, adapter, RestOfState>>

(*  access settles: the name is taken and the loop tries the next counter, or
    the name is free and the handler calls rename  *)
UploadAccess(u) ==
    /\ uploads[u].pc = "access"
    /\ uploads' = [uploads EXCEPT ![u] =
                      IF safeName(@) \in DOMAIN mediaDir
                      THEN [@ EXCEPT !.counter = @ + 1]
                      ELSE [@ EXCEPT !.pc = "rename"]]
    /\ UNCHANGED <<mediaDir, adapter, RestOfState>>

(*  rename settles: the upload is the file of that name; the handler answers 200  *)
UploadRename(u) ==
    /\ uploads[u].pc = "rename"
    /\ mediaDir' = [name \in DOMAIN mediaDir \cup {safeName(uploads[u])} |->
                        IF name = safeName(uploads[u]) THEN u ELSE mediaDir[name]]
    /\ uploads' = [uploads EXCEPT ![u].pc = "200"]
    /\ UNCHANGED <<adapter, RestOfState>>

NextMedia ==
    \/ \E u \in 1..MaxUploads, ext \in Exts, stamp \in Stamps : UploadBegin(u, ext, stamp)
    \/ \E u \in 1..MaxUploads : UploadAccess(u)
    \/ \E u \in 1..MaxUploads : UploadRename(u)

SpecMedia == Init /\ [][NextMedia]_vars

(***************************************************************************)
(* SpecClose: one instance, started and stopped on the local channel, and  *)
(* the close of the control window; the final autosave succeeds or fails,  *)
(* a worker start succeeds or fails, a worker stop resolves or rejects.    *)
(* The file write ends and every worker call settles, the calls of the     *)
(* close handler's stop-all among them.                                    *)
(***************************************************************************)
NextClose ==
    /\ closing.pc # "closed"
    /\ \/ ~Has(browsers, "A") /\ Control("add", "A", CfgCam)
       \/ \E action \in {"start", "stop"} : Control(action, "A", EmptyObj)
       \/ \E fr \in BagToSet(frames), success \in BOOLEAN : WorkerSettle(fr, success)
       \/ \E fr \in BagToSet(frames), stopped \in BOOLEAN : WorkerReject(fr, stopped)
       \/ Close
       \/ AutosaveDone
       \/ AutosaveFailed

SpecClose ==
    /\ Init /\ [][NextClose]_vars
    /\ SF_vars(closing.pc # "closed" /\ (AutosaveDone \/ AutosaveFailed))
    /\ WF_vars(closing.pc # "closed" /\
                  \E fr \in BagToSet(frames), b \in BOOLEAN :
                      WorkerSettle(fr, b) \/ WorkerReject(fr, b))
    /\ WF_vars(closing.pc # "closed" /\
                  \E fr \in BagToSet(frames), b \in BOOLEAN :
                      fr.sf = "close" /\ (WorkerSettle(fr, b) \/ WorkerReject(fr, b)))

(***************************************************************************)
(* SpecAdapter: the REST API and the dashboard are configured over their   *)
(* IPC channels; a listen succeeds or fails, a close completes.            *)
(* adapter[a].server is this.server: "null", or the state of the http      *)
(* server it holds; bound is what that server was told to listen on.       *)
(***************************************************************************)
Adapters == {"api", "webui"}
Addrs    == {Str("127.0.0.1"), Undefined}
Ports    == {Str("7211"), Str("7212"), Undefined}
Enables  == {Bool(TRUE), Bool(FALSE), Undefined}

(*  v ?? d  *)
Nullish(v, d) == IF v \in {Undefined, Null} THEN d ELSE v

parseInt(port) ==
    CASE port = Str("7211") -> 7211
      [] port = Str("7212") -> 7212
      [] OTHER              -> 0

(*  start(): the server is created and told to listen  *)
adapterStart(A) ==
    [A EXCEPT !.server = "binding", !.bound = <<A.addr, parseInt(A.port)>>]

(*  stop(): the server is told to close  *)
adapterStop(A) == [A EXCEPT !.server = "closing"]

configure(A, a, cfg) ==
    LET A1 == [A EXCEPT !.enabled = Truthy(Nullish(cfg.enabled, Bool(FALSE))),
                        !.addr    = Nullish(cfg.addr, Str("127.0.0.1")),
                        !.port    = Nullish(cfg.port, Str(defaultPort(a)))]
    IN  IF A1.enabled /\ A1.server = "null" THEN adapterStart(A1)
        ELSE IF ~A1.enabled /\ A1.server # "null" THEN adapterStop(A1)
        ELSE A1

(*  ipcMain.handle("api") and ipcMain.handle("webui"), up to the first await  *)
Configure(a, cfg) ==
    /\ adapter' = [adapter EXCEPT ![a] = configure(@, a, cfg)]
    /\ UNCHANGED <<mediaDir, uploads, RestOfState>>

(*  the listen of start() completes: "listening", or "error" and start() rejects  *)
Listen(a, ok) ==
    /\ adapter[a].server = "binding"
    /\ adapter' = [adapter EXCEPT ![a].server = IF ok THEN "listening" ELSE "failed"]
    /\ UNCHANGED <<mediaDir, uploads, RestOfState>>

(*  the close of stop() completes and stop() forgets the server  *)
Closed(a) ==
    /\ adapter[a].server = "closing"
    /\ adapter' = [adapter EXCEPT ![a].server = "null", ![a].bound = <<>>]
    /\ UNCHANGED <<mediaDir, uploads, RestOfState>>

NextAdapter ==
    \/ \E a \in Adapters, enabled \in Enables, addr \in Addrs, port \in Ports :
            Configure(a, [enabled |-> enabled, addr |-> addr, port |-> port])
    \/ \E a \in Adapters, ok \in BOOLEAN : Listen(a, ok)
    \/ \E a \in Adapters : Closed(a)

SpecAdapter == Init /\ [][NextAdapter]_vars

(***************************************************************************)
(* SpecSanitize: the browser-sanitize channel; the record of the first     *)
(* request is any of Records, each later request sends back the answer     *)
(***************************************************************************)
Absent == <<"absent", "">>
Opt(key, v) == IF v = Absent THEN EmptyObj ELSE key :> v

Records ==
    {Opt("it", it) @@ Opt("t", t) @@ Opt("r", r) @@ Opt("zz", zz) @@ Opt("D", D) @@ Opt("id", id) :
        it \in {Absent, Undefined, Str("video"), Str("url"), Str("image")},
        t  \in {Absent, Str("Cam1")},
        r  \in {Absent, Num("44100")},
        zz \in {Absent, Undefined, Str("x")},
        D  \in {Absent, Bool(TRUE)},
        id \in {Absent, Str("A")}}

(*  ipcMain.handle("browser-sanitize")  *)
BrowserSanitize ==
    LET R == sanitizeConfig(probe.out)
    IN  /\ probe.n < MaxApply
        /\ probe' = [in |-> probe.out, out |-> R.cfg, changed |-> R.changed, n |-> probe.n + 1]
        /\ UNCHANGED <<browsers, worker, nextH, frames, store, configVersion, uuid, mounted,
                       file, replaced, stored, server, closing, cpuHighCount, usage, mediaDir, uploads, adapter, autosave, ev>>

InitSanitize ==
    /\ browsers      = <<>>
    /\ worker        = <<>>
    /\ nextH         = 1
    /\ frames        = EmptyBag
    /\ store         = <<>>
    /\ configVersion = 0
    /\ uuid          = 0
    /\ mounted       = TRUE
    /\ probe         \in {[in |-> r, out |-> r, changed |-> 0, n |-> 0] : r \in Records}
    /\ file          = EmptyFile
    /\ replaced      = {}
    /\ stored        = FALSE
    /\ server        = [api |-> TRUE, webui |-> TRUE]
    /\ closing       = [pc |-> "no", steps |-> <<>>]
    /\ cpuHighCount  = 0
    /\ usage         = [avg |-> 0, run |-> 0, alert |-> FALSE, alerts |-> 0, runs |-> 0, n |-> 0]
    /\ mediaDir      = <<>>
    /\ uploads       = [u \in 1..MaxUploads |-> [pc |-> "new", stamp |-> "", ext |-> "", counter |-> 0]]
    /\ adapter       = [a \in {"api", "webui"} |->
                            [enabled |-> FALSE, addr |-> Str("127.0.0.1"), port |-> Str(defaultPort(a)),
                             server |-> "null", bound |-> <<>>]]
    /\ autosave      = [due |-> -1, since |-> -1, calls |-> 0, doc |-> <<>>]
    /\ ev            = Event(Cur, "init", "", "", "")

NextSanitize == BrowserSanitize

SpecSanitize == InitSanitize /\ [][NextSanitize]_vars

(***************************************************************************)
(* SpecImport: the stored instance-config set, exports to the YAML file,   *)
(* files the user puts in its place, and imports                           *)
(***************************************************************************)
StoredCam   == sanitizeConfig(Spread(CfgCam, "id" :> Str("A"))).cfg
StoredOdd   == sanitizeConfig("id" :> Str("B") @@ "t" :> Str("true") @@ "i" :> Str("1.0")
                              @@ "w" :> Str("abc") @@ "N" :> Str("yes")
                              @@ "r" :> Str("44100") @@ "it" :> Str("image")).cfg
StoredOld   == ("id" :> Str("C") @@ "t" :> Str("Old") @@ "it" :> Str("video")
                @@ "D" :> Bool(TRUE))
SaveInputs  == {<<>>, <<StoredCam>>, <<StoredOdd, StoredCam>>, <<StoredOld>>}

OldRecord(inputType) ==
    ("BrowserTitle" :> Quoted("Cam1") @@ "BrowserWidth" :> Plain("1280")
     @@ "InputType" :> Plain(inputType) @@ "Output2Enabled" :> Plain("true")
     @@ "Output1Enabled" :> Plain("true") @@ "Output1VideoDisplay" :> Quoted("x")
     @@ "Output1AudioDevice" :> Quoted("") @@ "D" :> Plain("true"))
Files ==
    {Garbage, EmptyFile, ListFile(<<OldRecord("video")>>),
     ListFile(<<OldRecord("slideshow"), OldRecord("image")>>)}

(*  ipcMain.handle("browsers-save")  *)
BrowsersSave(cfgArray) ==
    /\ Apply(saveConfigs(Cur, cfgArray), "local", "browsers-save", "", "")
    /\ UNCHANGED mounted

(*  the user puts a file where the import reads  *)
PutFile(f) ==
    /\ file # f
    /\ Apply([Cur EXCEPT !.file = f], "user", "file", "", "")
    /\ UNCHANGED mounted

(*  ipcMain.handle("browsers-export"), and the export of the shutdown  *)
Export ==
    /\ Apply(exportConfig(Cur), "local", "export", "", "")
    /\ UNCHANGED mounted

(*  ipcMain.handle("browsers-import"), and the import of --config  *)
StoredIds(set) == {Get(set[n], "id") : n \in DOMAIN set}

Import ==
    LET S == importConfig(Cur)
    IN  /\ Apply([S EXCEPT !.ans = S.res,
                           !.replaced = IF S.res = "false" THEN @
                                        ELSE StoredIds(store) \ StoredIds(S.store)],
                 "local", "import", "", "")
        /\ UNCHANGED mounted

NextImport ==
    \/ \E cfgArray \in SaveInputs : BrowsersSave(cfgArray)
    \/ \E f \in Files : PutFile(f)
    \/ Export
    \/ Import

SpecImport == Init /\ [][NextImport]_vars

(***************************************************************************)
(* SpecWeb: the dashboard's create, patch and delete requests, the import  *)
(* of a file, and the control UI, which loads the stored set into the      *)
(* registry                                                                *)
(***************************************************************************)
RECURSIVE addAll(_, _)
addAll(S, cfgArray) ==
    IF cfgArray = <<>> THEN S
    ELSE addAll(cbAdd(S, Get(Head(cfgArray), "id")[2], Head(cfgArray)), Tail(cfgArray))

(*  the control UI loads: control prune, browsers-load, control add for each  *)
ControlLoad ==
    LET L == loadConfigs(cbPrune(Cur))
    IN  /\ Apply(addAll(L.S, L.browsers), "local", "load", "", "")
        /\ UNCHANGED mounted

IdRecord(title) == ("id" :> Quoted("A") @@ "BrowserTitle" :> Quoted(title))
WebFiles == {ListFile(<<OldRecord("image")>>), ListFile(<<IdRecord("One"), IdRecord("Two")>>)}
WebIds   == {"U1", "U2"}

NextWeb ==
    \/ \E body \in Bodies : WebUICreate(body)
    \/ \E id \in WebIds, body \in Bodies : WebUIPatch(id, body)
    \/ \E id \in WebIds : WebUIDelete(id)
    \/ \E f \in WebFiles : PutFile(f)
    \/ Import
    \/ ControlLoad

SpecWeb == Init /\ [][NextWeb]_vars

(***************************************************************************)
(* SpecDebounce: instances are created, patched and deleted on the         *)
(* dashboard while time passes in steps of TickMs; a timer that is due     *)
(* fires before more time passes                                           *)
(***************************************************************************)
Tick ==
    /\ autosave.due # 0
    /\ autosave.due > 0 \/ autosave.since \in 0..(delay - 1)
    /\ autosave' = [autosave EXCEPT
                       !.due   = IF @ > 0 THEN @ - TickMs ELSE @,
                       !.since = IF @ >= 0 THEN Min({@ + TickMs, delay}) ELSE @]
    /\ UNCHANGED <<mediaDir, uploads, adapter, browsers, worker, nextH, frames, store,
                   configVersion, uuid, mounted, probe, file, replaced, stored, server,
                   closing, cpuHighCount, usage, ev>>

(*  the debounce timer fires: performAutosave  *)
DebounceFire ==
    LET S == Send(autosaveConfig([Cur EXCEPT !.autosave.due = -1]), "autosave-done", "")
    IN  /\ autosave.due = 0
        /\ Apply(S, "timer", "debounce", "", "")
        /\ UNCHANGED mounted

NextDebounce ==
    \/ \E body \in Bodies : WebUICreate(body)
    \/ \E id \in WebIds, body \in Bodies : WebUIPatch(id, body)
    \/ \E id \in WebIds : WebUIDelete(id)
    \/ Tick
    \/ DebounceFire

SpecDebounce == Init /\ [][NextDebounce]_vars

TypeOK ==
    /\ nextH \in 1..(MaxWorkers + 1)
    /\ DOMAIN worker = 1..(nextH - 1)
    /\ \A n \in DOMAIN browsers : browsers[n].h \in DOMAIN worker
    /\ \A n, m \in DOMAIN browsers : browsers[n].id = browsers[m].id => n = m
    /\ configVersion \in 0..MaxVersion

(***************************************************************************)
(* Observations of a step                                                  *)
(***************************************************************************)
Calls     == {ev.calls[n] : n \in DOMAIN ev.calls}
Completed == {ev.done[n] : n \in DOMAIN ev.done}
Alone     == Len(ev.calls) = 1
Quiet     == ev.same /\ ev.wops = <<>> /\ ev.sends = <<>>

(*  the state-machine calls on id that await a worker operation  *)
InProgress(id) ==
    BagCardinality([fr \in {x \in BagToSet(frames) : x.id = id /\ x.k # "xstop"}
                       |-> frames[fr]])

(***************************************************************************)
(* C1: for any single id at most one state-machine call is in progress at  *)
(* a time; a second call for the same id does not begin before the first   *)
(* has completed.                                                          *)
(***************************************************************************)
C1_OneCallPerId == \A id \in Ids : InProgress(id) <= 1

(***************************************************************************)
(* C2: start on an id that is not in the registry fails with "invalid      *)
(* browser id"; no worker operation is invoked, no notification is sent,   *)
(* registry and workers stay as they were.                                 *)
(***************************************************************************)
C2_StartUnknown ==
    \A c \in Calls : c.action = "start" /\ ~c.exists =>
        /\ c.res = "invalid browser id"
        /\ c.wops = <<>> /\ c.sends = <<>>
        /\ Alone => Quiet

C2_Witness ==
    /\ Alone /\ ev.op = "start" /\ ev.ans = "invalid browser id"
    /\ \E c \in Calls : c.action = "start" /\ ~c.exists

(***************************************************************************)
(* C3: start on an instance that is running fails with "browser already    *)
(* running" and does not invoke the worker's start again.                  *)
(***************************************************************************)
C3_StartRunning ==
    \A c \in Calls : c.action = "start" /\ c.running =>
        /\ c.res = "browser already running"
        /\ c.wops = <<>>
        /\ Alone => ev.wops = <<>>

C3_Witness ==
    /\ ev.op = "start" /\ ev.ans = "browser already running"
    /\ \E c \in Calls : c.action = "start" /\ c.running

(***************************************************************************)
(* C4: stop on an existing instance that is not running fails with         *)
(* "browser still not running" and does not invoke the worker's stop.      *)
(***************************************************************************)
C4_StopStopped ==
    \A c \in Calls : c.action = "stop" /\ c.exists /\ ~c.running =>
        /\ c.res = "browser still not running"
        /\ c.wops = <<>>
        /\ Alone => ev.wops = <<>>

C4_Witness ==
    /\ ev.op = "stop" /\ ev.ans = "browser still not running"
    /\ \E c \in Calls : c.action = "stop" /\ c.exists /\ ~c.running

(***************************************************************************)
(* C5: start on an existing, not running instance whose configuration is   *)
(* invalid (empty title, or output not enabled) fails with "browser        *)
(* configuration not valid"; the worker's start is never invoked and the   *)
(* instance stays stopped.                                                 *)
(***************************************************************************)
C5_StartInvalid ==
    \A c \in Calls : c.action = "start" /\ c.exists /\ ~c.running /\ ~c.valid =>
        /\ c.res = "browser configuration not valid"
        /\ c.wops = <<>> /\ c.sends = <<>>
        /\ Alone => Quiet /\ ~running(Cur, c.id)

C5_Witness ==
    /\ ev.op = "start" /\ ev.ans = "browser configuration not valid"
    /\ \E c \in Calls : /\ c.action = "start" /\ c.exists /\ ~c.running /\ ~c.valid
                        /\ Get(Entry(browsers, c.id).cfg, "t") = Str("")
    /\ ~running(Cur, "A")

(***************************************************************************)
(* C7: del on a running instance stops it first: the call suspends on the  *)
(* worker's stop and removes nothing yet, and in the step in which a del   *)
(* removes the instance its worker is not running, whatever was            *)
(* interleaved.                                                            *)
(***************************************************************************)
C7_DelStopsFirst ==
    /\ \A c \in Calls : c.action = "del" /\ c.running =>
            /\ c.res = "pending"
            /\ \E n \in DOMAIN ev.wops : ev.wops[n][1] = "stop"
            /\ Alone => ev.removed = {}
    /\ (\/ \E c \in Calls : c.action = "del" /\ c.res = "ok"
        \/ \E d \in Completed : d.action = "del")
         => \A h \in ev.removed : ~worker[h]

(***************************************************************************)
(* C8: deletion is terminal.  When a del completes the id is absent from   *)
(* the registry; an id enters the registry only by an add on that id, so   *)
(* no pending or later operation brings it back; start, stop, reload and   *)
(* clear on an absent id fail with "invalid browser id" and change         *)
(* nothing.                                                                *)
(***************************************************************************)
C8_DeletionTerminal ==
    /\ \A d \in Completed : d.action = "del" /\ d.res = "ok" => ~Has(browsers, d.id)
    /\ \A c \in Calls : c.action = "del" /\ c.res = "ok" => ~Has(browsers, c.id)
    /\ \A id \in ev.added : \E c \in Calls : c.action = "add" /\ c.id = id
    /\ \A c \in Calls : c.action \in {"start", "stop", "reload", "clear"} /\ ~c.exists =>
            /\ c.res = "invalid browser id"
            /\ Alone => Quiet

(*  a del has completed while another call on the id still awaits its worker  *)
C8_Witness ==
    \E d \in Completed : /\ d.action = "del" /\ d.res = "ok"
                          /\ ~Has(browsers, d.id)
                          /\ InProgress(d.id) > 0

(***************************************************************************)
(* C9: del on an id that is not in the registry fails with an error, it    *)
(* does not report success, and leaves the registry unchanged.             *)
(***************************************************************************)
C9_DelUnknownFails ==
    \A c \in Calls : c.action = "del" /\ ~c.exists =>
        /\ c.res \notin {"ok", "pending"}
        /\ Alone => ev.same

(***************************************************************************)
(* C10: the config of every registry entry, however it was added or        *)
(* modified, has exactly the keys of the schema, id excepted.              *)
(***************************************************************************)
C10_RegistrySanitized ==
    \A n \in DOMAIN browsers : DOMAIN browsers[n].cfg \ {"id"} = SchemaKeys

(***************************************************************************)
(* C6: start-all invokes start on exactly the instances that are, when it  *)
(* is called, not running and valid (title not empty, output enabled),     *)
(* once each; an instance with an empty title is never started by it,      *)
(* whether the local channel, REST /all/start, the dashboard's             *)
(* /api/all/start or --autostart called it.                                *)
(***************************************************************************)
C6_StartAllExact ==
    (\E c \in Calls : c.action = "start-all") =>
        LET eligible == {b.id : b \in {x \in ev.before :
                            /\ ~x.running
                            /\ x.t \notin {Undefined, Str("")}
                            /\ x.N = Bool(TRUE)}}
            started  == {c.id : c \in {x \in Calls : x.action = "start" /\ x.wops = <<"start">>}}
        IN  /\ started = eligible
            /\ Cardinality({n \in DOMAIN ev.wops : ev.wops[n][1] = "start"}) = Cardinality(eligible)
            /\ \A c \in Calls : c.action = "start" => c.res = "pending"
            /\ \A b \in ev.before : b.t = Str("") => b.id \notin started

(*  the dashboard's start-all starts one instance and passes over an untitled one  *)
C6_Witness ==
    /\ ev.src = "webui" /\ ev.op = "start-all"
    /\ \E c \in Calls : c.action = "start-all"
    /\ \E c \in Calls : c.action = "start" /\ c.wops = <<"start">>
    /\ \E b \in ev.before : b.t = Str("") /\ b.N = Bool(TRUE) /\ ~b.running

(***************************************************************************)
(* What a sanitize call did, read off its argument and its result          *)
(***************************************************************************)
Migrated(in)       == Get(in, "it") = Str("video")
Inserted(in)       == {key \in SchemaKeys : Get(in, key) = Undefined}
Removed(in)        == {key \in DOMAIN in : key # "id" /\ key \notin SchemaKeys}

(***************************************************************************)
(* C11: sanitize is idempotent: applied to its own result it reports 0     *)
(* changes and leaves the record as it is.                                 *)
(***************************************************************************)
C11_SanitizeIdempotent ==
    probe.n >= 2 => probe.changed = 0 /\ probe.out = probe.in

(*  the second call, after a first one that migrated, inserted and removed  *)
C11_Witness ==
    /\ probe.n = 2 /\ probe.changed = 0
    /\ Get(probe.out, "it") = Str("url") /\ Get(probe.out, "t") = Str("Cam1")
    /\ Get(probe.out, "id") = Str("A")

(***************************************************************************)
(* C12: the result of sanitize has exactly the keys of the schema, and id  *)
(* if the argument had one; a schema field the argument lacks has its      *)
(* default, a schema field it has keeps its value (the retired input type  *)
(* apart), a key outside the schema other than id is gone; the count       *)
(* returned is the number of insertions, removals and migrations.          *)
(***************************************************************************)
C12_SanitizeExact ==
    probe.n >= 1 =>
        /\ DOMAIN probe.out = SchemaKeys \cup (DOMAIN probe.in \cap {"id"})
        /\ \A key \in Inserted(probe.in) : probe.out[key] = FieldOf(key).def
        /\ \A key \in SchemaKeys \ Inserted(probe.in) :
                (key = "it" /\ Migrated(probe.in)) \/ probe.out[key] = probe.in[key]
        /\ "id" \in DOMAIN probe.in => probe.out["id"] = probe.in["id"]
        /\ probe.changed = Cardinality(Inserted(probe.in)) + Cardinality(Removed(probe.in))
                             + (IF Migrated(probe.in) THEN 1 ELSE 0)

C12_Witness ==
    /\ probe.n = 1
    /\ Get(probe.in, "zz") = Str("x") /\ Get(probe.in, "D") = Bool(TRUE)
    /\ "t" \notin DOMAIN probe.in /\ Get(probe.in, "r") = Num("44100")
    /\ probe.changed = Cardinality(SchemaKeys) - 1 + 2

Imported == ev.op = "import" /\ ev.ans = "undefined"

C13_ImportFailure ==
    ev.op = "import" /\ file.kind = "garbage" => ev.ans = "false" /\ ev.kept

C13_Witness ==
    /\ ev.op = "import" /\ file.kind = "garbage" /\ ev.ans = "false"
    /\ store = <<StoredOdd, StoredCam>>

(***************************************************************************)
(* C15: the import of an exported file gives back the instances that were  *)
(* exported, as many and in the same order, every schema field with its    *)
(* value up to the coercion to the field's exported type; the instances    *)
(* exported hold no retired value and no legacy key.                       *)
(***************************************************************************)
NoRetired(set) ==
    \A n \in DOMAIN set : /\ Get(set[n], "it") # Str("video")
                           /\ DOMAIN set[n] \cap legacyFields = {}

C15_RoundTrip ==
    Imported /\ file.exported /\ NoRetired(file.of) =>
        /\ Len(store) = Len(file.of)
        /\ \A n \in DOMAIN file.of : \A key \in SchemaKeys \cap DOMAIN file.of[n] :
                /\ key \in DOMAIN store[n]
                /\ Coerce(FieldOf(key).etype, store[n][key])
                     = Coerce(FieldOf(key).etype, file.of[n][key])

C15_Witness ==
    /\ Imported /\ file.exported /\ file.of = <<StoredOdd, StoredCam>>
    /\ Len(store) = 2 /\ store[1]["t"] = Str("true") /\ store[1]["N"] = Bool(TRUE)
    /\ store[2]["z"] = Str("1")

(***************************************************************************)
(* C16: the import of an old file ignores its Output1 fields and keeps     *)
(* every other setting: a schema field the file gives has the file's       *)
(* value, coerced to the field's type, an InputType of url, image, video   *)
(* or slideshow included; a schema field the file lacks has its default.   *)
(***************************************************************************)
Given(rec, f)   == f.ename \in DOMAIN rec
Lacking(rec, f) == f.ename \notin DOMAIN rec /\ f.iname \notin DOMAIN rec
UserFile        == Imported /\ file.kind = "list" /\ ~file.exported

C18_NoLegacyKeys ==
    Imported => \A n \in DOMAIN store : DOMAIN store[n] \cap legacyFields = {}

C18_Witness ==
    /\ Imported /\ file.kind = "list" /\ Len(store) >= 1
    /\ {"Output1Enabled", "Output1VideoDisplay", "D"} \subseteq DOMAIN file.doc[1]
    /\ DOMAIN store[1] \cap legacyFields = {}

(***************************************************************************)
(* C14: a successful import is a full replace: the stored set is exactly   *)
(* the file's instances, as many and in file order, each sanitized, and no *)
(* instance the import replaced is in the stored set again, also after a   *)
(* later dashboard request has saved.                                      *)
(***************************************************************************)
C14_ImportReplaces ==
    /\ Imported /\ file.kind = "list" =>
          /\ Len(store) = Len(file.doc)
          /\ \A n \in DOMAIN file.doc :
                /\ DOMAIN store[n] = SchemaKeys \cup {"id"}
                /\ store[n]["t"] = Coerce("string", Load(file.doc[n]["BrowserTitle"]))
    /\ \A n \in DOMAIN store : Get(store[n], "id") \notin replaced

(***************************************************************************)
(* C19: ids are unique: no two stored records have the same id, and no two *)
(* registry entries have the same id, after any imports and any dashboard  *)
(* create, patch and delete requests.                                      *)
(***************************************************************************)
C19_IdsUnique ==
    /\ \A n, m \in DOMAIN store : n # m => Get(store[n], "id") # Get(store[m], "id")
    /\ \A n, m \in DOMAIN browsers : n # m => browsers[n].id # browsers[m].id

(***************************************************************************)
(* C20: the id is immutable: when a dashboard request has saved, every     *)
(* instance is stored under the id it has in the registry, the one         *)
(* generated at its creation, whatever id the request bodies carried.      *)
(***************************************************************************)
C20_IdImmutable ==
    ev.src = "webui" /\ ev.op \in {"create", "patch", "delete"} /\ ev.http \in {200, 201} =>
        /\ Len(store) = Len(browsers)
        /\ \A n \in DOMAIN browsers : Get(store[n], "id") = Str(browsers[n].id)

(***************************************************************************)
(* C21: every add, mod or del that succeeds, on whatever surface it was    *)
(* issued, the local control channel included, has written the full set of *)
(* instance configs to the store and incremented the config version when   *)
(* it is reported complete.                                                *)
(***************************************************************************)
C21_MutationPersists ==
    (\/ \E c \in Calls : c.action \in {"add", "mod", "del"} /\ c.res = "ok"
     \/ \E d \in Completed : d.action \in {"add", "mod", "del"} /\ d.res = "ok") =>
        /\ configVersion > 0
        /\ ~ev.kept
        /\ Len(store) = Len(browsers)

(***************************************************************************)
(* C22: the config version never decreases: a step adds to it exactly the  *)
(* number of saves of the instance-config set it made, one for each save,  *)
(* and a step that saves nothing leaves it as it is; so the version is the *)
(* same before and after a step only if the step saved nothing.            *)
(***************************************************************************)
C22_VersionCountsSaves ==
    [][/\ configVersion' = configVersion + ev'.saves
       /\ configVersion' >= configVersion
       /\ configVersion' = configVersion <=> ev'.saves = 0]_vars

C22_Witness ==
    /\ ev.op = "import" /\ ev.saves = 1 /\ ~ev.kept
    /\ configVersion = 2 /\ file.exported

(***************************************************************************)
(* C23: a bulk action completes exactly when the last of the calls it      *)
(* fanned out has settled, not before; it completes with success also when *)
(* a start among them failed, the caller is not told of the failure, and   *)
(* the settling of a start, failed or not, stops no instance that runs.    *)
(***************************************************************************)
BulkDone(e) == {n \in DOMAIN e.done : e.done[n].action \in {"start-all", "stop-all", "reload-all"}}
Groups(fs)  == {fr.grp : fr \in BagToSet(fs)} \ {0}

FailedStart == ev.src = "worker" /\ ev.op = "start" /\ ev.arg = "failed"

C24_FailedStartStopped ==
    [][/\ FailedStart' =>
             /\ ev'.sends = << <<"browser-failed", ev'.id>> >>
             /\ Len(ev'.wops) = 1 /\ ev'.wops[1][1] = "stop"
             /\ \A h \in DOMAIN worker : ~worker[h] => ~worker'[h]
             /\ \E fr \in BagToSet(frames') :
                    fr.k = "xstop" /\ fr.id = ev'.id /\ fr.h = ev'.wops[1][2]
       /\ ev'.src = "worker" /\ ev'.op = "xstop" =>
             \A fr \in BagToSet(frames) :
                 fr.k = "xstop" /\ CopiesIn(fr, frames') < CopiesIn(fr, frames)
                     => ~worker'[fr.h]]_vars

C24_Witness ==
    /\ FailedStart /\ ev.sends = << <<"browser-failed", "A">> >>
    /\ \E n \in DOMAIN browsers : browsers[n].id = "A" /\ ~worker[browsers[n].h]
    /\ \E fr \in BagToSet(frames) : fr.k = "xstop" /\ fr.id = "A"

(***************************************************************************)
(* C25: the REST API and the dashboard catch every error a state-machine   *)
(* call raises and answer with an error response: the REST API with 417    *)
(* and the error's message, the dashboard with 500 and the message; a      *)
(* request that comes after a failed one is answered, or it awaits the     *)
(* worker.                                                                 *)
(***************************************************************************)
Top(e)    == e.calls[Len(e.calls)]
Raised(e) == e.calls # <<>> /\ Top(e).res \notin {"ok", "pending"}
Request(e) == e.src \in {"rest", "webui"}

C25_ErrorsAnswered ==
    [][/\ ev'.src = "rest"  /\ Raised(ev') => ev'.http = 417 /\ ev'.msg = Top(ev').res
       /\ ev'.src = "webui" /\ Raised(ev') => ev'.http = 500 /\ ev'.msg = Top(ev').res
       /\ Request(ev) /\ Raised(ev) /\ Request(ev') =>
              \/ ev'.http \in {200, 400, 404, 417, 500}
              \/ ev'.http = 0 /\ Top(ev').res = "pending"]_vars

C25_Witness ==
    /\ ev.src = "rest" /\ ev.op = "stop" /\ ev.id = "Cam1"
    /\ ev.http = 417 /\ ev.msg = "browser still not running"

(***************************************************************************)
(* C26: a command request of the dashboard that awaits the worker is       *)
(* answered when its 12 s timer fires, if not before: the answer is an     *)
(* error with a message no other error has; the timer cancels nothing,     *)
(* the call still awaits the worker and the worker's answer may change the *)
(* instance's status after the response.                                   *)
(***************************************************************************)
Awaiting(sf) == \E fr \in BagToSet(frames) : fr.sf = sf

TimerStep ==
    /\ ev'.src = "timer" =>
          /\ ev'.http = 500 /\ ev'.msg = TimedOut
          /\ ev'.same /\ ev'.wops = <<>>
          /\ BagCardinality(frames') = BagCardinality(frames)
    /\ ev'.src # "timer" => ev'.msg # TimedOut

C26_CommandDeadline ==
    /\ [][TimerStep]_vars
    /\ (Awaiting("webui-cmd") ~> (ev.src = "timer" \/ ~Awaiting("webui-cmd")))

C26_Witness ==
    /\ ev.src = "worker" /\ ev.op = "start" /\ ev.arg = "resolved" /\ ev.http = 0
    /\ \E n \in DOMAIN browsers : browsers[n].id = "A" /\ worker[browsers[n].h]

(***************************************************************************)
(* C27: a REST API request for one instance is answered within a deadline  *)
(* also when the worker call it awaits never settles.                      *)
(***************************************************************************)
C27_RestDeadline == Awaiting("rest") ~> ~Awaiting("rest")

(***************************************************************************)
(* C28: shutdown does its steps in this order, each complete before the    *)
(* next: every running instance is stopped, then the final persistence     *)
(* write, then both listeners are closed, then the control window is       *)
(* destroyed.                                                              *)
(***************************************************************************)
Pos(step) ==
    IF \E n \in DOMAIN closing.steps : closing.steps[n] = step
    THEN Min({n \in DOMAIN closing.steps : closing.steps[n] = step}) ELSE 0

C28_ShutdownOrder ==
    closing.pc = "closed" =>
        /\ 0 < Pos("stop-all") /\ Pos("stop-all") < Pos("autosave")
        /\ Pos("autosave") < Pos("api.stop") /\ Pos("autosave") < Pos("webui.stop")
        /\ Pos("api.stop") < Pos("destroy") /\ Pos("webui.stop") < Pos("destroy")
        /\ ~server.api /\ ~server.webui
        /\ \A h \in DOMAIN worker : ~worker[h]

(***************************************************************************)
(* C29: once the close handler has started no instance goes from stopped   *)
(* to running, whatever arrives on the REST API, the dashboard or the      *)
(* local channel while the shutdown is in progress.                        *)
(***************************************************************************)
C29_NoStartInShutdown ==
    [][closing.pc # "no" => \A h \in DOMAIN worker : ~worker[h] => ~worker'[h]]_vars

(***************************************************************************)
(* C30: the CPU alert is edge-triggered: over any sequence of averages one *)
(* alert is sent for each maximal run of consecutive averages at or above  *)
(* the threshold that reaches three, at its third average, and none while  *)
(* the run goes on; an average below the threshold sets the counter to     *)
(* zero and sends no alert, so a run broken before its third sends none.   *)
(***************************************************************************)
C30_AlertOncePerRun ==
    /\ usage.alerts = usage.runs
    /\ usage.alert <=> usage.run = 3
    /\ cpuHighCount = usage.run
    /\ usage.n > 0 /\ usage.avg < 80 => cpuHighCount = 0 /\ ~usage.alert

C30_Witness ==
    /\ usage.alerts = 2 /\ usage.run = 3 /\ usage.alert /\ usage.n = 7

(***************************************************************************)
(* C34: mod replaces only the config: the entry has the worker handle it   *)
(* had, no worker is created and none released, no worker changes its      *)
(* running status, no worker operation is invoked, and every other entry   *)
(* of the registry is as it was.                                           *)
(***************************************************************************)
ModStep == ev'.src = "local" /\ ev'.op = "mod" /\ ev'.ans = "ok"

C34_ModKeepsWorker ==
    [][ModStep =>
          /\ worker' = worker /\ nextH' = nextH /\ frames' = frames
          /\ ev'.wops = <<>>
          /\ DOMAIN browsers' = DOMAIN browsers
          /\ \A n \in DOMAIN browsers :
                /\ browsers'[n].id = browsers[n].id
                /\ browsers'[n].h = browsers[n].h
                /\ browsers[n].id # ev'.id => browsers'[n] = browsers[n]]_vars

C34_Witness ==
    /\ ev.src = "local" /\ ev.op = "mod" /\ ev.ans = "ok" /\ ev.id = "A" /\ ~ev.same
    /\ Len(browsers) = 2 /\ running(Cur, "A") /\ Entry(browsers, "A").cfg = CfgOff
    /\ Entry(browsers, "B").cfg = CfgCam

(***************************************************************************)
(* C33: running is never set speculatively: browser-started is sent for an *)
(* id only in the step in which the worker's start for that id resolves    *)
(* with success, once, and the worker runs then; a start that has not      *)
(* resolved, or resolves with failure, sends no browser-started.           *)
(***************************************************************************)
Started == {n \in DOMAIN ev.sends : ev.sends[n][1] = "browser-started"}

C33_StartedAfterSuccess ==
    /\ Started # {} =>
          /\ ev.src = "worker" /\ ev.op = "start" /\ ev.arg = "resolved"
          /\ Cardinality(Started) = 1
          /\ \A n \in Started : ev.sends[n][2] = ev.id
          /\ \E h \in DOMAIN worker : worker[h]
    /\ \A c \in Calls : "browser-started" \notin {c.sends[n] : n \in DOMAIN c.sends}
    /\ ev.src = "worker" /\ ev.op = "start" => (ev.arg = "resolved" <=> Started # {})

C33_Witness ==
    /\ ev.src = "worker" /\ ev.op = "start" /\ ev.arg = "resolved"
    /\ ev.sends = << <<"browser-started", "A">> >> /\ running(Cur, "A")

(***************************************************************************)
(* C36: no running worker is orphaned: in every state every worker that    *)
(* runs, and every worker whose start is awaited, is the worker of an      *)
(* entry of the registry, unless a stop of it is under way, whatever add,  *)
(* del, prune, start and stop calls were made and however they interleave. *)
(***************************************************************************)
Owned(h)    == \E n \in DOMAIN browsers : browsers[n].h = h
Stopping(h) == \E fr \in BagToSet(frames) : fr.h = h /\ fr.k \in {"stop", "xstop"}
Starting(h) == \E fr \in BagToSet(frames) : fr.h = h /\ fr.k = "start"

C36_NoOrphan ==
    \A h \in DOMAIN worker : worker[h] \/ Starting(h) => Owned(h) \/ Stopping(h)

(***************************************************************************)
(* C32: the media store never has two uploads under one name and an upload *)
(* never overwrites an asset: any two accepted uploads, two handled in the *)
(* same second included, are two files with two names, and each accepted   *)
(* upload is still the file of its name.                                   *)
(***************************************************************************)
Accepted == {u \in 1..MaxUploads : uploads[u].pc = "200"}

C32_UploadsDistinct ==
    /\ \A u, v \in Accepted : u # v => safeName(uploads[u]) # safeName(uploads[v])
    /\ \A u \in Accepted : /\ safeName(uploads[u]) \in DOMAIN mediaDir
                            /\ mediaDir[safeName(uploads[u])] = u

(***************************************************************************)
(* C31: a PATCH on a running instance stops it, replaces its config by the *)
(* merged, re-sanitized record and starts it again: when the request       *)
(* completes with 200 the instance is running with the new config; and a   *)
(* PATCH on an instance that is not running leaves it not running.         *)
(***************************************************************************)
Restarted(fr) ==
    /\ fr.par = "patch" /\ fr.k = "start"
    /\ CopiesIn(fr, frames') < CopiesIn(fr, frames)
    /\ ev'.src = "worker" /\ ev'.http = 200

PatchStep ==
    /\ \A fr \in BagToSet(frames) :
          Restarted(fr) =>
             \E n \in DOMAIN browsers' : /\ browsers'[n].id = fr.id
                                         /\ worker'[browsers'[n].h]
                                         /\ browsers'[n].cfg = fr.cfg
    /\ (ev'.src = "webui" /\ ev'.op = "patch" /\ ev'.http = 200) =>
          \A n \in DOMAIN browsers' :
              browsers'[n].id = ev'.id => ~worker'[browsers'[n].h]

C31_PatchRestarts == [][PatchStep]_vars

(***************************************************************************)
(* C37: whenever a dashboard create, patch or delete request completes,    *)
(* with success or with an error, the persisted instance set is the        *)
(* registry's configs; and a PATCH that fails during its stop, mod or      *)
(* restart leaves the instance it found running still running.             *)
(***************************************************************************)
Persisted(bs) ==
    Json([n \in DOMAIN bs |-> Spread(("id" :> Str(bs[n].id)), bs[n].cfg)])

PatchFailed(fr) ==
    /\ fr.par = "patch"
    /\ CopiesIn(fr, frames') < CopiesIn(fr, frames)
    /\ ev'.src = "worker" /\ ev'.http = 500

AnsweredStep ==
    /\ ev'.http # 0 => store' = Persisted(browsers')
    /\ \A fr \in BagToSet(frames) :
          PatchFailed(fr) =>
             \E n \in DOMAIN browsers' : /\ browsers'[n].id = fr.id
                                         /\ worker'[browsers'[n].h]

C37_PersistedIsRegistry == [][AnsweredStep]_vars

(***************************************************************************)
(* C38: once every configure call of an adapter has settled, its listener  *)
(* is open exactly when the last configure call asked for enabled, also    *)
(* when the enable arrived while a stop was closing the server (a server   *)
(* whose own listen failed is not held against the adapter).               *)
(***************************************************************************)
Settled(a) == adapter[a].server \notin {"binding", "closing"}
Open(a)    == adapter[a].server = "listening"

C38_OpenIffEnabled ==
    \A a \in Adapters :
        (Settled(a) /\ adapter[a].server # "failed") => (Open(a) <=> adapter[a].enabled)

(***************************************************************************)
(* C39: after a configure call on an enabled adapter has settled and its   *)
(* listener is open, the address and port the listener is bound to are the *)
(* recorded ones, also when the call changed the address or port of an     *)
(* adapter that was already listening.                                     *)
(***************************************************************************)
C39_BoundIsRecorded ==
    \A a \in Adapters :
        (adapter[a].enabled /\ Open(a)) =>
            adapter[a].bound = <<adapter[a].addr, parseInt(adapter[a].port)>>

(***************************************************************************)
(* C40: shutdown always terminates: once the control window is asked to    *)
(* close it is eventually destroyed, also when the final autosave fails or *)
(* a worker stop fails, given that every worker call eventually settles.   *)
(***************************************************************************)
C40_ShutdownTerminates == (closing.pc # "no") ~> (closing.pc = "closed")

(***************************************************************************)
(* C35: the debounced autosave coalesces bursts: a burst of dashboard      *)
(* mutations in which each follows the previous within 10 s produces one   *)
(* debounced autosave write: none while the burst lasts, one 10 s after    *)
(* its last mutation, holding the instance set that mutation stored.       *)
(***************************************************************************)
Mutated == ev'.src = "webui" /\ ev'.saves > 0 /\ configVersion' # configVersion
Fired   == ev'.src = "timer" /\ ev'.op = "debounce" /\ autosave.due = 0

BurstStep ==
    /\ Mutated => /\ autosave'.doc = autosave.doc
                  /\ autosave'.due = delay
    /\ autosave'.doc # autosave.doc => Fired
    /\ Fired => /\ autosave.since = delay
                /\ autosave'.due = -1
                /\ autosave'.doc = exportConfig(Cur).file.doc

C35_BurstOneWrite == [][BurstStep]_vars

C35_Witness ==
    /\ ev.src = "timer" /\ ev.op = "debounce"
    /\ autosave.calls >= 2 /\ autosave.due = -1
    /\ Len(autosave.doc) >= 1

====
